---- MODULE Spec2Model ----
(***************************************************************************)
(* Custodial wallet: the balance ledger, the deposit credit path and the   *)
(* withdrawal pipeline, modelled from the Go sources.                      *)
(*                                                                         *)
(* One (user, chain, currency) balance row is modelled; amounts are        *)
(* integers in the smallest unit.  Every SQL statement is one atomic step  *)
(* on the database; a handler that issues several statements with          *)
(* suspension points in between is split at those points.                  *)
(***************************************************************************)
EXTENDS Integers, Sequences, FiniteSets, TLC

\* ---------------------------------------------------------------- bounds
MaxWithdrawals == 2      \* withdrawal rows that may be inserted
MaxDeposits    == 1      \* deposit rows that may be inserted
MaxAmount      == 2      \* largest amount of a request or of a deposit
MaxRepeat      == 2      \* ledger releases (Unfreeze) replayed per withdrawal
MaxCredits     == 2      \* IncrementBalance statements issued per deposit
MaxBalance     == 3      \* largest column value when the ledger is driven directly
MaxHeight      == 2      \* blocks on the chain the scanner reads
MaxKeys        == 4      \* encrypted_keys rows that may be inserted
MaxSignRequests == 2     \* signature_requests rows that may be inserted
MaxRiskLogs    == 2      \* risk_logs rows that may be inserted
MaxRunning     == 2      \* tick bodies of one driver that may be in flight
ListLimit      == 1      \* rows one listing of the confirmation driver returns (100 in the source)
MaxRecords     == 2      \* rows per table that the read endpoints are asked for
RequiredConfirmations == 2   \* the chain's configured confirmation threshold

\* ---------------------------------------------------------------- data
Owner == "u1"
Users == {"u1", "u2"}

\* amounts a caller may put in CreateWithdrawalRequest.Amount (a decimal
\* string: nothing rejects a zero or a negative one before the service)
ReqAmounts == {0 - 1} \cup (1 .. MaxAmount)
\* amounts observed on chain for a deposit
DepAmounts == 1 .. MaxAmount

\* what a service call returned: the operation and its error ("nil": none)
Returned(op, err) == [op |-> op, err |-> err]

VARIABLES
    balance,     \* the balances row of (Owner, chain, currency)
    deposits,    \* deposits table, indexed by id
    credit,      \* in-flight service.CreditDeposit calls
    creditN,     \* per deposit: IncrementBalance statements issued for it
    withdrawals, \* withdrawals table, indexed by id
    applied,     \* per withdrawal: ledger statements issued on its behalf
    call,        \* in-flight CreateWithdrawal calls
    ret,         \* what the handler that returned last returned
    blacklist,   \* risk blacklist entries
    rules,       \* active risk rules
    limit,       \* the withdrawal limit that applies to Owner
    proc,        \* withdrawal processor tick: rows listed, row in hand
    tick,        \* confirmation driver tick: phase and rows listed
    pdep,        \* in-flight ProcessDeposit calls
    scanProgress,\* scan_progress.last_scanned of the chain (0: no row yet)
    scan,        \* deposit scanner tick: position in ScanDeposits
    scanned,     \* heights whose block, transactions and logs were all processed
    resume,      \* height in hand when the scanner last stopped before its progress write
    keys,        \* encrypted_keys table, indexed by id
    signRequests,\* signature_requests table, indexed by id
    sign,        \* in-flight Sign and SignWithRequestID calls
    signatures,  \* signatures the key manager has produced
    gen,         \* in-flight GenerateAddress calls
    chainTx,     \* per withdrawal: what the chain holds for its broadcast transaction
    head,        \* the height of the chain's newest block
    ran,         \* the confirmation driver has completed a run
    riskLogs,    \* risk_logs table, indexed by id
    riskResult,  \* what the risk check that returned last returned
    drivers,     \* the worker's four driver goroutines: position in their loop
    ticks,       \* per driver: ticks waiting in its ticker channel (capacity 1)
    cancelled,   \* the worker's context has been cancelled
    owners,      \* per table (withdrawals, deposits): the UserID of each row, by id
    response     \* what the read endpoint that answered last answered, and to whom

depVars  == <<deposits, credit, creditN>>
wdVars   == <<withdrawals, applied>>
riskVars == <<blacklist, rules, limit>>
scanVars == <<pdep, scanProgress, scan, scanned, resume>>
kmVars   == <<keys, signRequests, sign, signatures, gen>>
chainVars == <<chainTx, head, ran>>
logVars  == <<riskLogs, riskResult>>
schedVars == <<drivers, ticks, cancelled>>
apiVars  == <<owners, response>>
vars == <<balance, deposits, credit, creditN, withdrawals, applied, call, ret,
          blacklist, rules, limit, proc, tick, pdep, scanProgress, scan,
          scanned, resume, keys, signRequests, sign, signatures, gen,
          chainTx, head, ran, riskLogs, riskResult, drivers, ticks, cancelled,
          owners, response>>

\* ---------------------------------------------------------------- ledger
\* wallet.Balance; exists = FALSE is "no row for the triple".
NoBalance == [exists |-> FALSE, available |-> 0, frozen |-> 0]

\* UPDATE balances SET available = available + ? WHERE <triple>.
\* gorm reports no error when the WHERE clause matches no row.
IncrementBalance(b, amount) ==
    [row |-> IF b.exists THEN [b EXCEPT !.available = @ + amount] ELSE b,
     err |-> "nil"]

\* UPDATE balances SET available = available - ? WHERE <triple> AND available >= ?.
DecrementBalance(b, amount) ==
    [row |-> IF b.exists /\ b.available >= amount
             THEN [b EXCEPT !.available = @ - amount] ELSE b,
     err |-> "nil"]

\* Transaction of two UPDATEs: the guarded one on available, then the
\* unguarded one on frozen.  The first matching no row is not an error, so
\* the second always runs.
FreezeBalance(b, amount) ==
    LET b1 == IF b.exists /\ b.available >= amount
              THEN [b EXCEPT !.available = @ - amount] ELSE b
        b2 == IF b1.exists THEN [b1 EXCEPT !.frozen = @ + amount] ELSE b1
    IN  [row |-> b2, err |-> "nil"]

\* Transaction of two UPDATEs: the guarded one on frozen, then the unguarded
\* one on available.
UnfreezeBalance(b, amount) ==
    LET b1 == IF b.exists /\ b.frozen >= amount
              THEN [b EXCEPT !.frozen = @ - amount] ELSE b
        b2 == IF b1.exists THEN [b1 EXCEPT !.available = @ + amount] ELSE b1
    IN  [row |-> b2, err |-> "nil"]

\* the column values the model explores
InRange(b) ==
    /\ b.available \in (0 - MaxBalance) .. MaxBalance
    /\ b.frozen \in (0 - MaxBalance) .. MaxBalance

\* The row CreateBalance inserts when the wallet service generates the
\* owner's deposit address: both columns zero.
CreateBalance == [exists |-> TRUE, available |-> 0, frozen |-> 0]

\* ---------------------------------------------------------------- deposits
DepositStatusPending    == "Pending"
DepositStatusConfirming == "Confirming"
DepositStatusConfirmed  == "Confirmed"
DepositStatusCredited   == "Credited"

DepositIds == 1 .. Len(deposits)

\* the rows of a table whose ids the WHERE clause matched, oldest first,
\* each with the copy of the row the query returned
RECURSIVE Listed(_, _, _)
Listed(table, matched, from) ==
    IF from > Len(table) THEN <<>>
    ELSE (IF from \in matched THEN <<[id |-> from, row |-> table[from]]>> ELSE <<>>)
         \o Listed(table, matched, from + 1)

\* Limit(limit): the first rows of the listing
Limited(list) ==
    SubSeq(list, 1, IF Len(list) < ListLimit THEN Len(list) ELSE ListLimit)

\* (variant for C26: a listing that does not filter on the status)
ListEveryDeposit ==
    Listed(deposits, 1 .. Len(deposits), 1)

\* deposit repository ListPendingDeposits
ListPendingDeposits ==
    Limited(Listed(deposits, {i \in 1 .. Len(deposits) :
            deposits[i].status \in {DepositStatusPending, DepositStatusConfirming}}, 1))

\* deposit repository ListUnconfirmedDeposits
ListUnconfirmedDeposits ==
    Limited(Listed(deposits, {i \in 1 .. Len(deposits) :
            deposits[i].status = DepositStatusConfirmed /\ ~deposits[i].credited}, 1))

\* ---- the chain as the scanner sees it
\* Block h holds one native transfer to Owner's deposit address and one
\* ERC-20 Transfer log to it, each in a transaction of its own.  The scanner
\* passes "ETH" as the currency of the first and the token contract address
\* (lgEntry.Address.Hex(), 42 characters) as the currency of the second.
NativeCurrency == "ETH"
TokenContract == "0xdAC17F958D2ee523a2206206994597C13D831ec7"
Heights == 1 .. MaxHeight
TransferAmount(h) == ((h - 1) % MaxAmount) + 1
BlockTransactions(h) ==
    <<[tx |-> 2 * h - 1, currency |-> NativeCurrency, amount |-> TransferAmount(h)]>>
BlockLogs(h) ==
    <<[tx |-> 2 * h, currency |-> TokenContract, amount |-> TransferAmount(h)]>>
Transfers == UNION {{BlockTransactions(h)[1], BlockLogs(h)[1]} : h \in Heights}

\* ---- the deposits table
\* GetDepositByTxHash: is there a row with this hash?
GetDepositByTxHash(tx) == \E d \in DepositIds : deposits[d].tx = tx

\* (variant for C13: the deposits table without the unique index)
NoUniqueIndex(tx) == TRUE

\* Deposit.TxHash carries a unique index: an insert of a hash that is
\* already in the table is refused.
UniqueTxHash(tx) == ~GetDepositByTxHash(tx)

\* Deposit.Currency is a varchar(20) column of the PostgreSQL schema that
\* AutoMigrate creates: a longer value is refused by the insert.
CurrencyFits(currency) == currency = NativeCurrency

\* ProcessDeposit runs as two statements: the lookup by hash, then the
\* insert.  pdep[p] is the position of caller p: "scan" is the call
\* ScanDeposits makes for the transfer in hand, "call" any other caller.
DepositCallers == {"scan", "call"}
DepositIdle == [pc |-> "idle", tx |-> 0, currency |-> "", amount |-> 0]

\* the scanner moves on to the next transfer of its list
ScanAfterDeposit(p) ==
    IF p = "scan" THEN [scan EXCEPT !.queue = Tail(@)] ELSE scan

\* ProcessDeposit up to the insert: a hash already recorded returns nil at
\* once; the deposit address is Owner's, so the row is prepared.
ProcessDepositCheck(p, t) ==
    /\ pdep[p].pc = "idle"
    /\ t \in Transfers
    /\ IF p = "scan"
       THEN scan.pc \in {"txs", "logs"} /\ scan.queue /= <<>> /\ t = Head(scan.queue)
       ELSE Len(deposits) < MaxDeposits
    /\ IF GetDepositByTxHash(t.tx)
       THEN /\ pdep' = pdep
            /\ scan' = ScanAfterDeposit(p)
            /\ ret' = Returned("ProcessDeposit", "nil")
       ELSE /\ pdep' = [pdep EXCEPT ![p] = [pc |-> "create", tx |-> t.tx,
                      currency |-> t.currency, amount |-> t.amount]]
            /\ scan' = scan
            /\ ret' = ret
    /\ UNCHANGED <<apiVars, schedVars, logVars, chainVars, kmVars, balance, depVars, wdVars, riskVars, call, proc, tick,
                   scanProgress, scanned, resume>>

\* ProcessDeposit, the insert: repo.CreateDeposit of a Pending row; the
\* database refuses a duplicate hash and an over-long currency.
ProcessDepositCreate(p) ==
    /\ pdep[p].pc = "create"
    /\ IF UniqueTxHash(pdep[p].tx) /\ CurrencyFits(pdep[p].currency)
       THEN /\ deposits' = Append(deposits,
                   [tx |-> pdep[p].tx, currency |-> pdep[p].currency,
                    amount |-> pdep[p].amount, status |-> DepositStatusPending,
                    credited |-> FALSE, confirmations |-> 0])
            /\ creditN' = Append(creditN, 0)
            /\ ret' = Returned("ProcessDeposit", "nil")
       ELSE /\ UNCHANGED <<deposits, creditN>>
            /\ ret' = Returned("ProcessDeposit",
                   IF UniqueTxHash(pdep[p].tx) THEN "value too long"
                   ELSE "duplicate key")
    /\ pdep' = [pdep EXCEPT ![p] = DepositIdle]
    /\ scan' = ScanAfterDeposit(p)
    /\ UNCHANGED <<apiVars, schedVars, logVars, chainVars, kmVars, balance, credit, wdVars, riskVars, call, proc, tick,
                   scanProgress, scanned, resume>>

\* deposit service ConfirmDeposit: sets Confirmed whatever the status was.
ConfirmDeposit(d) ==
    /\ d \in DepositIds
    /\ deposits' = [deposits EXCEPT ![d].status = DepositStatusConfirmed]
    /\ UNCHANGED <<apiVars, schedVars, logVars, chainVars, kmVars, scanVars, balance, credit, creditN, wdVars, riskVars, call, ret, proc, tick>>

\* The confirmation driver (runConfirmationChecker) does, one after the
\* other in one goroutine: deposit CheckConfirmations, ProcessCredits,
\* withdrawal CheckConfirmations.  tick.phase is where it is, tick.queue the
\* rows the current loop still has to visit.
TickIdle == [phase |-> "idle", queue |-> <<>>]

\* ticker fires: deposit CheckConfirmations lists the pending deposits
TickStart ==
    /\ tick.phase = "idle"
    /\ tick' = [phase |-> "deposits", queue |-> ListPendingDeposits]
    /\ UNCHANGED <<apiVars, schedVars, logVars, chainVars, kmVars, scanVars, balance, depVars, wdVars, riskVars, call, ret, proc>>

\* deposit CheckConfirmations, one iteration: conf = 0 stands for a
\* transaction whose block is not known yet (the row is left alone);
\* otherwise the listed copy is saved with Confirmed or Confirming.
DepositCheckStep(conf) ==
    /\ tick.phase = "deposits"
    /\ tick.queue /= <<>>
    /\ LET it == Head(tick.queue)
       IN  deposits' =
             IF conf = 0 THEN deposits
             ELSE [deposits EXCEPT ![it.id] = [it.row EXCEPT
                      !.confirmations = conf,
                      !.status = IF conf >= RequiredConfirmations
                                 THEN DepositStatusConfirmed
                                 ELSE DepositStatusConfirming]]
    /\ tick' = [tick EXCEPT !.queue = Tail(@)]
    /\ UNCHANGED <<apiVars, schedVars, logVars, chainVars, kmVars, scanVars, balance, credit, creditN, wdVars, riskVars, call, ret, proc>>

\* Block heights are uint64 and the confirmations an int: the difference
\* wraps around modulo the word and the conversion reads the top half of the
\* word as negative.  The word is modelled 30 bits wide.
Word == 1073741824
ToUint64(x) == x % Word
ToInt(u) == IF u >= Word \div 2 THEN u - Word ELSE u

\* the block a deposit row carries: the block of its transfer
BlockNumberOf(tx) == (tx + 1) \div 2

\* (variant for C32: the unsigned difference compared as it is)
ConfirmationsUnsigned(currentBlock, blockNumber) ==
    ToUint64(currentBlock - blockNumber + 1)

\* confirmations := int(currentBlock - deposit.BlockNumber + 1)
Confirmations(currentBlock, blockNumber) ==
    ToInt(ToUint64(currentBlock - blockNumber + 1))

\* deposit CheckConfirmations, one iteration for a row whose block number is
\* known, with the adapter reporting currentBlock
CheckConfirmationsStep(currentBlock) ==
    /\ tick.phase = "deposits"
    /\ tick.queue /= <<>>
    /\ LET it == Head(tick.queue)
           confirmations == Confirmations(currentBlock, BlockNumberOf(it.row.tx))
       IN  deposits' = [deposits EXCEPT ![it.id] = [it.row EXCEPT
                 !.confirmations = confirmations,
                 !.status = IF confirmations >= RequiredConfirmations
                            THEN DepositStatusConfirmed
                            ELSE DepositStatusConfirming]]
    /\ tick' = [tick EXCEPT !.queue = Tail(@)]
    /\ UNCHANGED <<apiVars, schedVars, logVars, chainVars, kmVars, scanVars, balance, credit, creditN, wdVars, riskVars, call, ret, proc>>

\* deposit CheckConfirmations, one iteration at the chain's present height:
\* a row without a block number whose transaction the chain does not know
\* (GetTransaction fails or names no block) is passed over, any other row
\* is saved with its confirmations
CheckConfirmationsLoop ==
    /\ tick.phase = "deposits"
    /\ tick.queue /= <<>>
    /\ IF BlockNumberOf(Head(tick.queue).row.tx) = 0
       THEN DepositCheckStep(0)
       ELSE CheckConfirmationsStep(head)

\* the chain produces a block
NewBlock ==
    /\ head <= MaxHeight
    /\ head' = head + 1
    /\ UNCHANGED <<apiVars, schedVars, logVars, chainTx, ran, kmVars, scanVars, balance, depVars, wdVars, riskVars, call, ret, proc, tick>>

\* ProcessCredits lists the Confirmed deposits that are not credited
ProcessCreditsStart ==
    /\ tick.phase = "deposits"
    /\ tick.queue = <<>>
    /\ tick' = [phase |-> "credits", queue |-> ListUnconfirmedDeposits]
    /\ UNCHANGED <<apiVars, schedVars, logVars, chainVars, kmVars, scanVars, balance, depVars, wdVars, riskVars, call, ret, proc>>

\* service.CreditDeposit runs as three statements: read the row, increment
\* the balance, mark the row.  credit[p] is the position of caller p: "tick"
\* is the call ProcessCredits makes for the head of its list, "call" a
\* CreditDeposit(id) from any other caller of the service.
CreditCallers == {"tick", "call"}
CreditIdle == [pc |-> "idle", dep |-> 0, amount |-> 0]

TickAfterCredit(p) ==
    IF p = "tick" THEN [tick EXCEPT !.queue = Tail(@)] ELSE tick

\* GetDepositByID and the Credited test: a credited deposit returns at once.
CreditRead(p, d) ==
    /\ credit[p].pc = "idle"
    /\ d \in DepositIds
    /\ IF p = "tick"
       THEN tick.phase = "credits" /\ tick.queue /= <<>> /\ d = Head(tick.queue).id
       ELSE ~deposits[d].credited /\ creditN[d] < MaxCredits
    /\ IF deposits[d].credited
       THEN credit' = credit /\ tick' = TickAfterCredit(p)
       ELSE /\ credit' = [credit EXCEPT ![p] =
                   [pc |-> "read", dep |-> d, amount |-> deposits[d].amount]]
            /\ tick' = tick
    /\ UNCHANGED <<apiVars, schedVars, logVars, chainVars, kmVars, scanVars, balance, deposits, creditN, wdVars, riskVars, call, ret, proc>>

\* walletRepo.IncrementBalance with the amount read
CreditIncrement(p) ==
    /\ credit[p].pc = "read"
    /\ balance' = IncrementBalance(balance, credit[p].amount).row
    /\ creditN' = [creditN EXCEPT ![credit[p].dep] = @ + 1]
    /\ credit' = [credit EXCEPT ![p].pc = "incremented"]
    /\ UNCHANGED <<apiVars, schedVars, logVars, chainVars, kmVars, scanVars, deposits, wdVars, riskVars, call, ret, proc, tick>>

\* repo.CreditDeposit: credited = true, status = Credited, by id
CreditMark(p) ==
    /\ credit[p].pc = "incremented"
    /\ deposits' = [deposits EXCEPT ![credit[p].dep] =
           [@ EXCEPT !.credited = TRUE, !.status = DepositStatusCredited]]
    /\ credit' = [credit EXCEPT ![p] = CreditIdle]
    /\ tick' = TickAfterCredit(p)
    /\ UNCHANGED <<apiVars, schedVars, logVars, chainVars, kmVars, scanVars, balance, creditN, wdVars, riskVars, call, ret, proc>>

\* may the call of p be lost now?  (bounds the replays of one deposit)
MayLose(p) ==
    credit[p].pc = "incremented" => creditN[credit[p].dep] < MaxCredits

\* The caller of CreditDeposit stops between two statements: the call is
\* lost, the database keeps what was committed.
CreditCrash ==
    /\ credit["call"].pc /= "idle"
    /\ MayLose("call")
    /\ credit' = [credit EXCEPT !["call"] = CreditIdle]
    /\ UNCHANGED <<apiVars, schedVars, logVars, chainVars, kmVars, scanVars, balance, deposits, creditN, wdVars, riskVars, call, ret, proc, tick>>

\* ---------------------------------------------------------------- deposit scanner
\* ScanDeposits of one chain, run by runDepositScanner in one goroutine.
\* scan.pc is where the loop over blocks is, scan.blk the height in hand,
\* scan.queue the transfers of that block still to hand to ProcessDeposit.
\* scan.whole: nothing of the block in hand was skipped so far;
\* scan.clean: no adapter or database call of this tick failed so far.
maxBlocks == 200
ScanIdle == [pc |-> "idle", blk |-> 0, latest |-> 0, queue |-> <<>>,
             whole |-> TRUE, clean |-> TRUE]

\* (variant for C14: a scan that starts at the first block whatever the
\* stored progress is)
ScanFromFirstBlock(latestBlock) ==
    /\ scan.pc = "idle"
    /\ pdep["scan"].pc = "idle"
    /\ scan' = [ScanIdle EXCEPT !.pc = "block", !.blk = 1, !.latest = latestBlock]
    /\ UNCHANGED <<apiVars, schedVars, logVars, chainVars, kmVars, balance, depVars, wdVars, riskVars, call, ret, proc, tick,
                   pdep, scanProgress, scanned, resume>>

\* ScanDeposits up to the loop: GetLastScannedBlock, GetBlockNumber (the
\* adapter may answer any height), the window clamp.
ScanDeposits(latestBlock) ==
    /\ scan.pc = "idle"
    /\ pdep["scan"].pc = "idle"
    /\ LET lastScanned == scanProgress
       IN  scan' = [ScanIdle EXCEPT
                      !.pc = "block",
                      !.blk = lastScanned + 1,
                      !.latest = IF latestBlock > lastScanned + maxBlocks
                                 THEN lastScanned + maxBlocks ELSE latestBlock]
    /\ UNCHANGED <<apiVars, schedVars, logVars, chainVars, kmVars, balance, depVars, wdVars, riskVars, call, ret, proc, tick,
                   pdep, scanProgress, scanned, resume>>

\* GetBlock(blk): on an error the loop continues with the next height,
\* skipping the logs and the progress write of this one.
ScanGetBlock(ok) ==
    /\ scan.pc = "block"
    /\ scan.blk <= scan.latest
    /\ scan' = IF ok
               THEN [scan EXCEPT !.pc = "txs", !.queue = BlockTransactions(scan.blk),
                                 !.whole = TRUE]
               ELSE [scan EXCEPT !.blk = @ + 1, !.clean = FALSE]
    /\ UNCHANGED <<apiVars, schedVars, logVars, chainVars, kmVars, balance, depVars, wdVars, riskVars, call, ret, proc, tick,
                   pdep, scanProgress, scanned, resume>>

\* GetTransaction of the transaction in hand fails (or returns nil): the
\* transaction is skipped.
ScanSkipTransaction ==
    /\ scan.pc = "txs"
    /\ scan.queue /= <<>>
    /\ pdep["scan"].pc = "idle"
    /\ scan' = [scan EXCEPT !.queue = Tail(@), !.whole = FALSE, !.clean = FALSE]
    /\ UNCHANGED <<apiVars, schedVars, logVars, chainVars, kmVars, balance, depVars, wdVars, riskVars, call, ret, proc, tick,
                   pdep, scanProgress, scanned, resume>>

\* GetLogs(blk, blk): an error is logged and the logs are not scanned.
ScanGetLogs(ok) ==
    /\ scan.pc = "txs"
    /\ scan.queue = <<>>
    /\ pdep["scan"].pc = "idle"
    /\ scan' = IF ok
               THEN [scan EXCEPT !.pc = "logs", !.queue = BlockLogs(scan.blk)]
               ELSE [scan EXCEPT !.pc = "logs", !.whole = FALSE, !.clean = FALSE]
    /\ UNCHANGED <<apiVars, schedVars, logVars, chainVars, kmVars, balance, depVars, wdVars, riskVars, call, ret, proc, tick,
                   pdep, scanProgress, scanned, resume>>

\* SetLastScannedBlock(blk) at the end of the loop body; its error is
\* logged only.  Then the next height.
SetLastScannedBlock(ok) ==
    /\ scan.pc = "logs"
    /\ scan.queue = <<>>
    /\ pdep["scan"].pc = "idle"
    /\ scanProgress' = IF ok THEN scan.blk ELSE scanProgress
    /\ scanned' = IF scan.whole THEN scanned \cup {scan.blk} ELSE scanned
    /\ scan' = [scan EXCEPT !.pc = "block", !.blk = @ + 1,
                            !.clean = @ /\ ok]
    /\ UNCHANGED <<apiVars, schedVars, logVars, chainVars, kmVars, balance, depVars, wdVars, riskVars, call, ret, proc, tick,
                   pdep, resume>>

\* the loop is over: ScanDeposits returns, the scanner waits for its ticker
ScanEnd ==
    /\ scan.pc = "block"
    /\ scan.blk > scan.latest
    /\ scan' = ScanIdle
    /\ resume' = 0
    /\ UNCHANGED <<apiVars, schedVars, logVars, chainVars, kmVars, balance, depVars, wdVars, riskVars, call, ret, proc, tick,
                   pdep, scanProgress, scanned>>

\* the scanner stops wherever it is and is started again; resume keeps the
\* height it had fetched without having written its progress (0: none)
ScanCrash ==
    /\ scan.pc /= "idle"
    /\ scan' = ScanIdle
    /\ pdep' = [pdep EXCEPT !["scan"] = DepositIdle]
    /\ resume' = IF scan.pc \in {"txs", "logs"} THEN scan.blk ELSE 0
    /\ UNCHANGED <<apiVars, schedVars, logVars, chainVars, kmVars, balance, depVars, wdVars, riskVars, call, ret, proc, tick,
                   scanProgress, scanned>>

\* ---------------------------------------------------------------- scheduler
\* The worker starts four goroutines, each a loop around a select on
\* ctx.Done() and on its ticker's channel; the tick body runs inside the
\* loop.  The body of the deposit scanner calls ScanDeposits for three
\* chains in turn, the confirmation checker works through the configured
\* chains (one: ethereum), the two processors make one call.
Drivers == {"scanner", "processor", "checker", "notifier"}
ChainsOf(d) == IF d = "scanner" THEN 3 ELSE 1

\* pc: "select" (waiting in the select), "body" (in the tick body), "done"
\* (returned); chain: chains of this tick already started; working: a call
\* for a chain is running; running: tick bodies in flight
DriverIdle == [pc |-> "select", chain |-> 0, working |-> FALSE, running |-> 0]

\* time.Ticker: a tick is sent to the channel of capacity 1 and is dropped
\* when the channel is full; the deferred ticker.Stop() ends it on return
TickerFire(d) ==
    /\ drivers[d].pc /= "done"
    /\ ticks[d] = 0
    /\ ticks' = [ticks EXCEPT ![d] = 1]
    /\ UNCHANGED <<apiVars, drivers, cancelled, logVars, chainVars, kmVars, scanVars, balance, depVars, wdVars,
                   riskVars, call, ret, proc, tick>>

\* (variant for C36: a driver that starts each tick body in a goroutine of
\* its own and goes back to the select)
DriverReceiveSpawning(d) ==
    /\ drivers[d].pc = "select"
    /\ ticks[d] = 1
    /\ drivers[d].running < MaxRunning
    /\ ticks' = [ticks EXCEPT ![d] = 0]
    /\ drivers' = [drivers EXCEPT ![d] = [pc |-> "select", chain |-> 0,
                       working |-> FALSE, running |-> @.running + 1]]
    /\ UNCHANGED <<apiVars, cancelled, logVars, chainVars, kmVars, scanVars, balance, depVars, wdVars,
                   riskVars, call, ret, proc, tick>>

\* case <-ticker.C: the select takes the tick (it may do so when ctx.Done()
\* is ready too: select picks among the ready cases) and the loop enters
\* the tick body
DriverReceive(d) ==
    /\ drivers[d].pc = "select"
    /\ ticks[d] = 1
    /\ drivers[d].running < MaxRunning
    /\ ticks' = [ticks EXCEPT ![d] = 0]
    /\ drivers' = [drivers EXCEPT ![d] = [pc |-> "body", chain |-> 0,
                       working |-> FALSE, running |-> @.running + 1]]
    /\ UNCHANGED <<apiVars, cancelled, logVars, chainVars, kmVars, scanVars, balance, depVars, wdVars,
                   riskVars, call, ret, proc, tick>>

\* the body starts its call for the next chain; the context is not consulted
DriverChainStart(d) ==
    /\ drivers[d].pc = "body"
    /\ ~drivers[d].working
    /\ drivers[d].chain < ChainsOf(d)
    /\ drivers' = [drivers EXCEPT ![d].working = TRUE, ![d].chain = @ + 1]
    /\ UNCHANGED <<apiVars, ticks, cancelled, logVars, chainVars, kmVars, scanVars, balance, depVars, wdVars,
                   riskVars, call, ret, proc, tick>>

\* the call for the chain returns (its error is logged)
DriverChainEnd(d) ==
    /\ drivers[d].pc = "body"
    /\ drivers[d].working
    /\ drivers' = [drivers EXCEPT ![d].working = FALSE]
    /\ UNCHANGED <<apiVars, ticks, cancelled, logVars, chainVars, kmVars, scanVars, balance, depVars, wdVars,
                   riskVars, call, ret, proc, tick>>

\* the body is over: back to the select
DriverBodyEnd(d) ==
    /\ drivers[d].pc = "body"
    /\ ~drivers[d].working
    /\ drivers[d].chain = ChainsOf(d)
    /\ drivers' = [drivers EXCEPT ![d] = DriverIdle]
    /\ UNCHANGED <<apiVars, ticks, cancelled, logVars, chainVars, kmVars, scanVars, balance, depVars, wdVars,
                   riskVars, call, ret, proc, tick>>

\* case <-ctx.Done(): return
DriverReturn(d) ==
    /\ drivers[d].pc = "select"
    /\ cancelled
    /\ drivers' = [drivers EXCEPT ![d].pc = "done"]
    /\ UNCHANGED <<apiVars, ticks, cancelled, logVars, chainVars, kmVars, scanVars, balance, depVars, wdVars,
                   riskVars, call, ret, proc, tick>>

\* main receives SIGINT or SIGTERM and calls cancel()
Cancel ==
    /\ ~cancelled
    /\ cancelled' = TRUE
    /\ UNCHANGED <<apiVars, drivers, ticks, logVars, chainVars, kmVars, scanVars, balance, depVars, wdVars,
                   riskVars, call, ret, proc, tick>>

\* ---------------------------------------------------------------- read endpoints
\* GET /withdrawals/:id, GET /deposits/:id and the gRPC GetWithdrawal, called
\* by an authenticated user.  Of a row only its UserID matters here.
Tables == {"withdrawals", "deposits"}
NoResponse == [user |-> "none", table |-> "none", id |-> 0, status |-> "none", owner |-> "none"]

\* a row of the table is inserted for user u (CreateWithdrawal with
\* req.UserID, ProcessDeposit with depositAddr.UserID)
InsertRecord(table, u) ==
    /\ Len(owners[table]) < MaxRecords
    /\ owners' = [owners EXCEPT ![table] = Append(@, u)]
    /\ UNCHANGED <<response, schedVars, logVars, chainVars, kmVars, scanVars, balance, depVars, wdVars,
                   riskVars, call, ret, proc, tick>>

\* repository GetByID / GetDepositByID: First(&row, id), nil when no row
GetByID(table, id) ==
    IF id \in 1 .. Len(owners[table])
    THEN [found |-> TRUE, owner |-> owners[table][id]]
    ELSE [found |-> FALSE, owner |-> "none"]

\* service GetWithdrawal / GetDeposit and the handler's answer: the row
\* with this id, or not found
Answer(user, table, id) ==
    LET row == GetByID(table, id)
    IN  [user |-> user, table |-> table, id |-> id,
         status |-> IF row.found THEN "OK" ELSE "NotFound",
         owner |-> row.owner]

\* WithdrawalHandler.GetWithdrawal for the authenticated user
GetWithdrawal(user, id) ==
    /\ response' = Answer(user, "withdrawals", id)
    /\ UNCHANGED <<owners, schedVars, logVars, chainVars, kmVars, scanVars, balance, depVars, wdVars,
                   riskVars, call, ret, proc, tick>>

\* DepositHandler.GetDeposit for the authenticated user
GetDeposit(user, id) ==
    /\ response' = Answer(user, "deposits", id)
    /\ UNCHANGED <<owners, schedVars, logVars, chainVars, kmVars, scanVars, balance, depVars, wdVars,
                   riskVars, call, ret, proc, tick>>

\* WithdrawalServer.GetWithdrawal (gRPC) by id for the authenticated user
GetWithdrawalGRPC(user, id) ==
    /\ response' = [Answer(user, "withdrawals", id) EXCEPT
                        !.status = IF @ = "OK" THEN "OK" ELSE "codes.NotFound"]
    /\ UNCHANGED <<owners, schedVars, logVars, chainVars, kmVars, scanVars, balance, depVars, wdVars,
                   riskVars, call, ret, proc, tick>>

\* ---------------------------------------------------------------- risk engine
Addresses == {"aGood", "aBad"}

\* numeric id of a user, and the two ways the code turns it into a string
\* (users 1 and 49): the decimal digits of the id, and string(rune(id)), the
\* one character whose code point is the id; the character U+0031 is "1"
UserID(u) == IF u = "u1" THEN 1 ELSE 49
DecimalString(n) == IF n = 1 THEN "1" ELSE "49"
RuneString(n) == IF n = 1 THEN "U+0001" ELSE "1"

\* entries an operator may add with AddToBlacklist, rules with CreateRule
BlacklistPool == {[type |-> "address", value |-> "aBad"]}
RulePool == {[id |-> 1, action |-> "review", riskLevel |-> 1, maxAmount |-> 1],
             [id |-> 2, action |-> "block",  riskLevel |-> 2, maxAmount |-> 1]}

\* risk repository CheckBlacklist: an active entry of that type and value
CheckBlacklist(blType, value) == [type |-> blType, value |-> value] \in blacklist

\* evaluateRule for an amount_limit rule: matched when amount > max_amount
evaluateRule(rule, amount) == amount > rule.maxAmount

MaxOf(S) == IF S = {} THEN 0 ELSE CHOOSE x \in S : \A y \in S : y <= x

\* riskcontrol service CheckWithdrawalRisk
CheckWithdrawalRisk(user, to, amount) ==
    LET matched == {r \in rules : evaluateRule(r, amount)}
        blocked == \E r \in matched : r.action = "block"
    IN  IF CheckBlacklist("address", to)
        THEN [passed |-> FALSE, riskLevel |-> 0, needManualReview |-> FALSE,
              blocked |-> TRUE, reason |-> "address is blacklisted"]
        ELSE IF CheckBlacklist("user", RuneString(UserID(user)))
        THEN [passed |-> FALSE, riskLevel |-> 0, needManualReview |-> FALSE,
              blocked |-> TRUE, reason |-> "user is blacklisted"]
        ELSE [passed |-> ~blocked,
              riskLevel |-> MaxOf({r.riskLevel : r \in matched}),
              needManualReview |-> \E r \in matched : r.action = "review",
              blocked |-> blocked,
              reason |-> IF blocked THEN "rule" ELSE ""]

\* entries an operator may add for the risk service alone: the address, the
\* two users by their id in decimal, an IP and a device; a third rule that
\* only logs
RiskBlacklistPool ==
    BlacklistPool
    \cup {[type |-> "user", value |-> DecimalString(UserID(u))] : u \in Users}
    \cup {[type |-> "ip", value |-> "ipBad"], [type |-> "device", value |-> "devBad"]}
RiskRulePool ==
    RulePool \cup {[id |-> 3, action |-> "log", riskLevel |-> 2, maxAmount |-> 1]}

\* riskcontrol service CheckDepositRisk
CheckDepositRisk(from) ==
    IF CheckBlacklist("address", from)
    THEN [passed |-> TRUE, riskLevel |-> 2, needManualReview |-> TRUE,
          blocked |-> FALSE, reason |-> "source address is blacklisted"]
    ELSE [passed |-> TRUE, riskLevel |-> 0, needManualReview |-> FALSE,
          blocked |-> FALSE, reason |-> ""]

\* riskcontrol service CheckLoginRisk (device "" is "no device given")
CheckLoginRisk(ip, device) ==
    IF CheckBlacklist("ip", ip)
    THEN [passed |-> FALSE, riskLevel |-> 0, needManualReview |-> FALSE,
          blocked |-> TRUE, reason |-> "IP is blacklisted"]
    ELSE IF device /= "" /\ CheckBlacklist("device", device)
    THEN [passed |-> FALSE, riskLevel |-> 0, needManualReview |-> FALSE,
          blocked |-> TRUE, reason |-> "device is blacklisted"]
    ELSE [passed |-> TRUE, riskLevel |-> 0, needManualReview |-> FALSE,
          blocked |-> FALSE, reason |-> ""]

\* logRiskCheck: one RiskLog row is created
logRiskCheck(userID, action, riskLevel, result) ==
    Append(riskLogs, [user |-> userID, action |-> action,
                      riskLevel |-> riskLevel, result |-> result])

\* the result field of the row CheckWithdrawalRisk logs at its end
LogResult(result) ==
    IF result.blocked THEN "block"
    ELSE IF result.needManualReview THEN "review" ELSE "pass"

NoRiskCheck == [op |-> "none", user |-> 0,
                result |-> [passed |-> TRUE, riskLevel |-> 0, needManualReview |-> FALSE,
                            blocked |-> FALSE, reason |-> ""]]

\* a call of CheckWithdrawalRisk with what it writes to risk_logs: the
\* address-blacklist return logs "block", the user-blacklist return logs
\* nothing, the rule evaluation logs its outcome
CheckWithdrawalRiskCall(user, to, amount) ==
    /\ Len(riskLogs) < MaxRiskLogs
    /\ LET result == CheckWithdrawalRisk(user, to, amount)
       IN  /\ riskResult' = [op |-> "CheckWithdrawalRisk", user |-> UserID(user),
                             result |-> result]
           /\ riskLogs' =
                 IF CheckBlacklist("address", to)
                 THEN logRiskCheck(UserID(user), "withdrawal", 0, "block")
                 ELSE IF CheckBlacklist("user", RuneString(UserID(user)))
                 THEN riskLogs
                 ELSE logRiskCheck(UserID(user), "withdrawal", result.riskLevel,
                                   LogResult(result))
    /\ UNCHANGED <<apiVars, schedVars, chainVars, kmVars, scanVars, balance, depVars, wdVars, riskVars, call, ret, proc, tick>>

\* a call of CheckDepositRisk: nothing is written
CheckDepositRiskCall(user, from) ==
    /\ riskResult' = [op |-> "CheckDepositRisk", user |-> UserID(user),
                      result |-> CheckDepositRisk(from)]
    /\ UNCHANGED <<apiVars, schedVars, riskLogs, chainVars, kmVars, scanVars, balance, depVars, wdVars, riskVars, call, ret, proc, tick>>

\* a call of CheckLoginRisk: nothing is written
CheckLoginRiskCall(user, ip, device) ==
    /\ riskResult' = [op |-> "CheckLoginRisk", user |-> UserID(user),
                      result |-> CheckLoginRisk(ip, device)]
    /\ UNCHANGED <<apiVars, schedVars, riskLogs, chainVars, kmVars, scanVars, balance, depVars, wdVars, riskVars, call, ret, proc, tick>>

\* riskcontrol service AddToBlacklist
AddToBlacklist(e) ==
    /\ e \notin blacklist
    /\ blacklist' = blacklist \cup {e}
    /\ UNCHANGED <<apiVars, schedVars, logVars, chainVars, kmVars, scanVars, balance, depVars, wdVars, rules, limit, call, ret, proc, tick>>

\* riskcontrol service CreateRule (an active rule)
CreateRule(r) ==
    /\ r \notin rules
    /\ rules' = rules \cup {r}
    /\ UNCHANGED <<apiVars, schedVars, logVars, chainVars, kmVars, scanVars, balance, depVars, wdVars, blacklist, limit, call, ret, proc, tick>>

\* ---------------------------------------------------------------- key manager
\* user ids: 0 is the caller id the withdrawal processor passes to Sign
SignUsers == {0, UserID(Owner)}
GenUsers == {UserID(u) : u \in Users}

\* A master key row is stored with the empty address; deriveAddress is a
\* function of the user's master key and the index.
EmptyAddress == [owner |-> 0, index |-> 0]
deriveAddress(user, index) == [owner |-> user, index |-> index]
SignAddresses ==
    {EmptyAddress} \cup {deriveAddress(UserID(Owner), i) : i \in 0 .. 1}

SignStatusPending == "Pending"
SignStatusSigned  == "Signed"
SignStatusFailed  == "Failed"

KeyIds == 1 .. Len(keys)

\* gorm leaves soft-deleted rows out of every query
LiveKeys == {k \in KeyIds : ~keys[k].deleted}

\* the row First returns: the one with the lowest id, 0 when there is none
FirstOf(ids) == IF ids = {} THEN 0 ELSE CHOOSE k \in ids : \A j \in ids : k <= j

\* key repository GetKeyByAddress: chain and address, any key_type
GetKeyByAddress(address) ==
    FirstOf({k \in LiveKeys : keys[k].address = address})

\* key repository GetMasterKey
GetMasterKey(user) ==
    FirstOf({k \in LiveKeys : keys[k].user = user /\ keys[k].keyType = "master"})

\* key repository GetNextDerivationIndex: the count of the user's derived rows
GetNextDerivationIndex(user) ==
    Cardinality({k \in LiveKeys : keys[k].user = user /\ keys[k].keyType = "derived"})

\* the row GenerateMasterKey inserts
MasterKey(user) ==
    [user |-> user, keyType |-> "master", index |-> 0,
     address |-> EmptyAddress, deleted |-> FALSE]

GenCallers == {"g1", "g2"}
GenIdle == [pc |-> "idle", user |-> 0, index |-> 0]

\* GenerateAddress up to the derivation: GetMasterKey (GenerateMasterKey
\* when there is none), GetNextDerivationIndex
GenerateAddressIndex(g, user) ==
    /\ gen[g].pc = "idle"
    /\ Len(keys) + (IF GetMasterKey(user) = 0 THEN 1 ELSE 0)
         + Cardinality({x \in GenCallers : gen[x].pc = "indexed"}) < MaxKeys
    /\ keys' = IF GetMasterKey(user) = 0 THEN Append(keys, MasterKey(user)) ELSE keys
    /\ gen' = [gen EXCEPT ![g] = [pc |-> "indexed", user |-> user,
                                  index |-> GetNextDerivationIndex(user)]]
    /\ UNCHANGED <<apiVars, schedVars, logVars, chainVars, scanVars, balance, depVars, wdVars, riskVars, call, ret, proc, tick,
                   signRequests, sign, signatures>>

\* GenerateAddress from the derivation on: derive the child key of the
\* index, CreateKey
GenerateAddressCreate(g) ==
    /\ gen[g].pc = "indexed"
    /\ keys' = Append(keys, [user |-> gen[g].user, keyType |-> "derived",
                             index |-> gen[g].index,
                             address |-> deriveAddress(gen[g].user, gen[g].index),
                             deleted |-> FALSE])
    /\ gen' = [gen EXCEPT ![g] = GenIdle]
    /\ ret' = Returned("GenerateAddress", "nil")
    /\ UNCHANGED <<apiVars, schedVars, logVars, chainVars, scanVars, balance, depVars, wdVars, riskVars, call, proc, tick,
                   signRequests, sign, signatures>>

\* key repository DeleteKey: a soft delete
DeleteKey(id) ==
    /\ id \in LiveKeys
    /\ keys' = [keys EXCEPT ![id].deleted = TRUE]
    /\ UNCHANGED <<apiVars, schedVars, logVars, chainVars, scanVars, balance, depVars, wdVars, riskVars, call, ret, proc, tick,
                   signRequests, sign, signatures, gen>>

SignCallers == {"s1", "s2"}
SignIdle == [pc |-> "idle", user |-> 0, address |-> EmptyAddress, req |-> 0, key |-> 0]

\* UpdateSignatureRequest after Sign returned, when the call came through
\* SignWithRequestID (req > 0)
UpdateSignatureRequest(req, status) ==
    IF req = 0 THEN signRequests
    ELSE [signRequests EXCEPT ![req].status = status]

\* Sign up to the decryption: GetKeyByAddress, the nil test, the owner test
SignLookup(s, user, address, req) ==
    LET key == GetKeyByAddress(address)
        err == IF key = 0 THEN "ErrKeyNotFound"
               ELSE IF keys[key].user /= user THEN "key does not belong to user"
               ELSE "nil"
    IN  IF err /= "nil"
        THEN /\ ret' = Returned("Sign", err)
             /\ sign' = [sign EXCEPT ![s] = SignIdle]
             /\ signRequests' = UpdateSignatureRequest(req, SignStatusFailed)
        ELSE /\ sign' = [sign EXCEPT ![s] = [pc |-> "signing", user |-> user,
                             address |-> address, req |-> req, key |-> key]]
             /\ UNCHANGED <<ret, signRequests>>

\* Sign called directly (the withdrawal processor, the transaction service)
Sign(s, user, address) ==
    /\ sign[s].pc = "idle"
    /\ SignLookup(s, user, address, 0)
    /\ UNCHANGED <<apiVars, schedVars, logVars, chainVars, scanVars, balance, depVars, wdVars, riskVars, call, proc, tick,
                   keys, signatures, gen>>

\* SignWithRequestID up to its call of Sign: GetKeyByAddress, the nil test,
\* CreateSignatureRequest with status Pending
SignWithRequestID(s, user, address) ==
    /\ sign[s].pc = "idle"
    /\ Len(signRequests) < MaxSignRequests
    /\ LET key == GetKeyByAddress(address)
       IN  IF key = 0
           THEN /\ ret' = Returned("SignWithRequestID", "ErrKeyNotFound")
                /\ UNCHANGED <<sign, signRequests>>
           ELSE /\ signRequests' = Append(signRequests,
                       [user |-> user, key |-> key, address |-> address,
                        status |-> SignStatusPending])
                /\ sign' = [sign EXCEPT ![s] = [pc |-> "requested", user |-> user,
                                address |-> address, req |-> Len(signRequests) + 1,
                                key |-> key]]
                /\ ret' = ret
    /\ UNCHANGED <<apiVars, schedVars, logVars, chainVars, scanVars, balance, depVars, wdVars, riskVars, call, proc, tick,
                   keys, signatures, gen>>

\* the Sign call SignWithRequestID makes
SignRequested(s) ==
    /\ sign[s].pc = "requested"
    /\ SignLookup(s, sign[s].user, sign[s].address, sign[s].req)
    /\ UNCHANGED <<apiVars, schedVars, logVars, chainVars, scanVars, balance, depVars, wdVars, riskVars, call, proc, tick,
                   keys, signatures, gen>>

\* Sign from the decryption on: DecryptFromBase64, ToECDSA, ethcrypto.Sign;
\* a signature is returned, or one of the three fails
SignEnd(s, ok) ==
    /\ sign[s].pc = "signing"
    /\ signatures' = IF ok
                     THEN signatures \cup {[address |-> sign[s].address,
                              user |-> sign[s].user, key |-> sign[s].key,
                              req |-> sign[s].req]}
                     ELSE signatures
    /\ signRequests' = UpdateSignatureRequest(sign[s].req,
                           IF ok THEN SignStatusSigned ELSE SignStatusFailed)
    /\ ret' = Returned("Sign", IF ok THEN "nil" ELSE "ErrSignatureFailed")
    /\ sign' = [sign EXCEPT ![s] = SignIdle]
    /\ UNCHANGED <<apiVars, schedVars, logVars, chainVars, scanVars, balance, depVars, wdVars, riskVars, call, proc, tick,
                   keys, gen>>

\* ---------------------------------------------------------------- withdrawals
WithdrawalStatusPending      == "Pending"
WithdrawalStatusRiskReview   == "RiskReview"
WithdrawalStatusManualReview == "ManualReview"
WithdrawalStatusApproved     == "Approved"
WithdrawalStatusProcessing   == "Processing"
WithdrawalStatusBroadcast    == "Broadcast"
WithdrawalStatusConfirming   == "Confirming"
WithdrawalStatusCompleted    == "Completed"
WithdrawalStatusFailed       == "Failed"
WithdrawalStatusRejected     == "Rejected"
WithdrawalStatusCancelled    == "Cancelled"

WithdrawalIds == 1 .. Len(withdrawals)

RECURSIVE SumAmounts(_, _, _)
SumAmounts(table, matched, from) ==
    IF from > Len(table) THEN 0
    ELSE (IF from \in matched THEN table[from].amount ELSE 0)
         + SumAmounts(table, matched, from + 1)

\* withdrawal repository GetUserDailyWithdrawal (all rows are of today)
GetUserDailyWithdrawal ==
    SumAmounts(withdrawals, {i \in 1 .. Len(withdrawals) :
            withdrawals[i].status \notin {WithdrawalStatusRejected, WithdrawalStatusCancelled, WithdrawalStatusFailed}}, 1)

\* withdrawal_limits for the owner's (chain, currency): the row of user_id 0
\* is the global limit, the other row is the owner's own.  set = FALSE is
\* "no row".
GlobalLimit == 0
LimitKeys == {GlobalLimit, UserID(Owner)}
NoLimit == [set |-> FALSE, minAmount |-> 0, maxAmount |-> 0, dailyLimit |-> 0]
NoLimits == [k \in LimitKeys |-> NoLimit]
\* the limits an operator may set with SetLimit
LimitPool == {[set |-> TRUE, minAmount |-> 1, maxAmount |-> 1, dailyLimit |-> 2],
              [set |-> TRUE, minAmount |-> 1, maxAmount |-> 2, dailyLimit |-> 1]}

\* withdrawal repository GetLimit and GetGlobalLimit
GetLimit(userID) == limit[userID]
GetGlobalLimit == limit[GlobalLimit]

\* withdrawal service SetLimit: the row of that user id is updated, or
\* created when there is none
SetLimit(userID, l) ==
    /\ GetLimit(userID) /= l
    /\ limit' = [limit EXCEPT ![userID] = l]
    /\ UNCHANGED <<apiVars, schedVars, logVars, chainVars, kmVars, scanVars, balance, depVars, wdVars, blacklist, rules, call, ret, proc, tick>>

\* the limit checkLimits applies: the user's own row, else the global one
ApplicableLimit(userID) ==
    IF GetLimit(userID).set THEN GetLimit(userID) ELSE GetGlobalLimit

\* (variant for C17: limits that refuse the boundary amounts)
checkLimitsStrict(userID, amount) ==
    LET l == ApplicableLimit(userID)
    IN  IF ~l.set THEN "nil"
        ELSE IF amount < l.minAmount THEN "ErrBelowMinAmount"
        ELSE IF amount >= l.maxAmount THEN "ErrExceedSingleLimit"
        ELSE IF GetUserDailyWithdrawal + amount >= l.dailyLimit THEN "ErrExceedDailyLimit"
        ELSE "nil"

\* withdrawal service checkLimits
checkLimits(userID, amount) ==
    LET l == ApplicableLimit(userID)
    IN  IF ~l.set THEN "nil"
        ELSE IF amount < l.minAmount THEN "ErrBelowMinAmount"
        ELSE IF amount > l.maxAmount THEN "ErrExceedSingleLimit"
        ELSE IF GetUserDailyWithdrawal + amount > l.dailyLimit THEN "ErrExceedDailyLimit"
        ELSE "nil"

Callers == {"c1", "c2"}
CallIdle == [pc |-> "idle", amount |-> 0,
             risk |-> [needManualReview |-> FALSE, riskLevel |-> 0, blocked |-> FALSE]]

\* CreateWithdrawal up to the risk check: the balance read and its test,
\* checkLimits, CheckWithdrawalRisk.  Every error returns before any write.
CreateWithdrawalCheck(c, to, amount) ==
    /\ call[c].pc = "idle"
    /\ Len(withdrawals) + Cardinality({x \in Callers : call[x].pc = "checked"})
           < MaxWithdrawals
    /\ LET err == IF ~balance.exists THEN "ErrInsufficientBalance"
                  ELSE IF balance.available < amount THEN "ErrInsufficientBalance"
                  ELSE checkLimits(UserID(Owner), amount)
           risk == CheckWithdrawalRisk(Owner, to, amount)
       IN  IF err /= "nil"
           THEN call' = call /\ ret' = Returned("CreateWithdrawal", err)
           ELSE /\ call' = [call EXCEPT ![c] = [pc |-> "checked", amount |-> amount,
                      risk |-> [needManualReview |-> risk.needManualReview,
                                riskLevel |-> risk.riskLevel,
                                blocked |-> risk.blocked]]]
                /\ ret' = ret
    /\ UNCHANGED <<apiVars, schedVars, logVars, chainVars, kmVars, scanVars, balance, depVars, wdVars, riskVars, proc, tick>>

\* the status CreateWithdrawal derives from the risk result
InitialStatus(risk) ==
    IF risk.needManualReview THEN WithdrawalStatusManualReview
    ELSE IF risk.riskLevel > 0 THEN WithdrawalStatusRiskReview
    ELSE WithdrawalStatusApproved

NoneApplied == [unfreeze |-> 0, debit |-> 0]

\* CreateWithdrawal from FreezeBalance on: freeze, build the row, insert it;
\* a failed insert is rolled back with UnfreezeBalance.
CreateWithdrawalFreeze(c, inserted) ==
    /\ call[c].pc = "checked"
    /\ LET amount == call[c].amount
           fr == FreezeBalance(balance, amount)
       IN  IF fr.err /= "nil"
           THEN /\ ret' = Returned("CreateWithdrawal", fr.err)
                /\ UNCHANGED <<balance, withdrawals, applied>>
           ELSE IF inserted
           THEN /\ balance' = fr.row
                /\ withdrawals' = Append(withdrawals,
                       [amount |-> amount, status |-> InitialStatus(call[c].risk),
                        errorMsg |-> ""])
                /\ applied' = Append(applied, NoneApplied)
                /\ ret' = Returned("CreateWithdrawal", "nil")
           ELSE /\ balance' = UnfreezeBalance(fr.row, amount).row
                /\ ret' = Returned("CreateWithdrawal", "insert failed")
                /\ UNCHANGED <<withdrawals, applied>>
    /\ InRange(balance')
    /\ call' = [call EXCEPT ![c] = CallIdle]
    /\ UNCHANGED <<apiVars, schedVars, logVars, chainVars, kmVars, scanVars, depVars, riskVars, proc, tick>>

\* (variant for C20: an approval that does not test the current status)
ApproveAnyStatus(id) ==
    /\ id \in WithdrawalIds
    /\ withdrawals' = [withdrawals EXCEPT ![id].status = WithdrawalStatusApproved]
    /\ ret' = Returned("ApproveWithdrawal", "nil")
    /\ UNCHANGED <<apiVars, schedVars, logVars, chainVars, kmVars, scanVars, balance, depVars, applied, riskVars, call, proc, tick>>

\* ApproveWithdrawal
ApproveWithdrawal(id) ==
    /\ id \in WithdrawalIds
    /\ IF withdrawals[id].status \notin
             {WithdrawalStatusRiskReview, WithdrawalStatusManualReview}
       THEN /\ ret' = Returned("ApproveWithdrawal", "withdrawal is not pending review")
            /\ UNCHANGED withdrawals
       ELSE /\ withdrawals' = [withdrawals EXCEPT ![id].status = WithdrawalStatusApproved]
            /\ ret' = Returned("ApproveWithdrawal", "nil")
    /\ UNCHANGED <<apiVars, schedVars, logVars, chainVars, kmVars, scanVars, balance, depVars, applied, riskVars, call, proc, tick>>

\* RejectWithdrawal: no test of the current status
RejectWithdrawal(id) ==
    /\ id \in WithdrawalIds
    /\ applied[id].unfreeze < MaxRepeat
    /\ withdrawals' = [withdrawals EXCEPT ![id].status = WithdrawalStatusRejected]
    /\ balance' = UnfreezeBalance(balance, withdrawals[id].amount).row
    /\ applied' = [applied EXCEPT ![id].unfreeze = @ + 1]
    /\ ret' = Returned("RejectWithdrawal", "nil")
    /\ UNCHANGED <<apiVars, schedVars, logVars, chainVars, kmVars, scanVars, depVars, riskVars, call, proc, tick>>

\* CancelWithdrawal
CancelWithdrawal(id, user) ==
    /\ id \in WithdrawalIds
    /\ IF user /= Owner
       THEN /\ ret' = Returned("CancelWithdrawal", "withdrawal does not belong to user")
            /\ UNCHANGED <<balance, withdrawals, applied>>
       ELSE IF withdrawals[id].status \notin {WithdrawalStatusPending,
                   WithdrawalStatusRiskReview, WithdrawalStatusManualReview}
       THEN /\ ret' = Returned("CancelWithdrawal", "withdrawal cannot be cancelled")
            /\ UNCHANGED <<balance, withdrawals, applied>>
       ELSE /\ withdrawals' = [withdrawals EXCEPT ![id].status = WithdrawalStatusCancelled]
            /\ balance' = UnfreezeBalance(balance, withdrawals[id].amount).row
            /\ applied' = [applied EXCEPT ![id].unfreeze = @ + 1]
            /\ ret' = Returned("CancelWithdrawal", "nil")
    /\ UNCHANGED <<apiVars, schedVars, logVars, chainVars, kmVars, scanVars, depVars, riskVars, call, proc, tick>>

\* repository Update is gorm Save: the whole row is written from the copy
\* the caller holds
Save(it, status) ==
    [withdrawals EXCEPT ![it.id] = [it.row EXCEPT !.status = status]]

\* w.Status = Failed, w.ErrorMsg = the error, repo.Update(w)
SaveFailed(it, msg) ==
    [withdrawals EXCEPT ![it.id] =
        [it.row EXCEPT !.status = WithdrawalStatusFailed, !.errorMsg = msg]]

\* withdrawal repository ListByStatus(Approved)
ListApproved ==
    Listed(withdrawals, {i \in 1 .. Len(withdrawals) :
            withdrawals[i].status = WithdrawalStatusApproved}, 1)

\* withdrawal repository ListPendingConfirmation
ListPendingConfirmation ==
    Listed(withdrawals, {i \in 1 .. Len(withdrawals) :
            withdrawals[i].status \in {WithdrawalStatusBroadcast, WithdrawalStatusConfirming}}, 1)

NoItem == [id |-> 0]
ProcIdle == [queue |-> <<>>, cur |-> NoItem]

\* ProcessApprovedWithdrawals: the processor lists the Approved rows
ProcessApprovedWithdrawals ==
    /\ proc = ProcIdle
    /\ ListApproved /= <<>>
    /\ proc' = [queue |-> ListApproved, cur |-> NoItem]
    /\ UNCHANGED <<apiVars, schedVars, logVars, chainVars, kmVars, scanVars, balance, depVars, wdVars, riskVars, call, ret, tick>>

\* processWithdrawal, first statement: the listed row is saved as Processing
processWithdrawalBegin ==
    /\ proc.cur = NoItem
    /\ proc.queue /= <<>>
    /\ LET it == Head(proc.queue)
       IN  /\ withdrawals' = Save(it, WithdrawalStatusProcessing)
           /\ proc' = [queue |-> Tail(proc.queue), cur |-> it]
    /\ UNCHANGED <<apiVars, schedVars, logVars, chainVars, kmVars, scanVars, balance, depVars, applied, riskVars, call, ret, tick>>

ProcOutcomes == {"build failed", "sign failed", "broadcast failed", "broadcast"}

\* (variant for C29: a processor that releases the amount when it fails)
processWithdrawalEndUnfreezing(outcome) ==
    /\ proc.cur /= NoItem
    /\ withdrawals' = IF outcome = "broadcast"
                      THEN Save(proc.cur, WithdrawalStatusBroadcast)
                      ELSE SaveFailed(proc.cur, outcome)
    /\ balance' = IF outcome = "broadcast" THEN balance
                  ELSE UnfreezeBalance(balance, proc.cur.row.amount).row
    /\ proc' = [proc EXCEPT !.cur = NoItem]
    /\ UNCHANGED <<apiVars, schedVars, logVars, chainVars, kmVars, scanVars, depVars, applied, riskVars, call, ret, tick>>

\* processWithdrawal, the rest: BuildTransaction, Sign, BroadcastTransaction;
\* the first failure saves Failed, success saves Broadcast with the hash.
\* The balance row is not touched.
processWithdrawalEnd(outcome) ==
    /\ proc.cur /= NoItem
    /\ withdrawals' = IF outcome = "broadcast"
                      THEN Save(proc.cur, WithdrawalStatusBroadcast)
                      ELSE SaveFailed(proc.cur, outcome)
    /\ proc' = [proc EXCEPT !.cur = NoItem]
    /\ UNCHANGED <<apiVars, schedVars, logVars, chainVars, kmVars, scanVars, balance, depVars, applied, riskVars, call, ret, tick>>

\* the processor stops (crash or cancellation) wherever it is
ProcStop ==
    /\ proc /= ProcIdle
    /\ proc' = ProcIdle
    /\ UNCHANGED <<apiVars, schedVars, logVars, chainVars, kmVars, scanVars, balance, depVars, wdVars, riskVars, call, ret, tick>>

\* what GetTransaction may return for a broadcast hash: nothing (error or
\* nil), or status 0 = pending, 1 = success, 2 = failed with confirmations
NoTx == [found |-> FALSE, status |-> 0, confirmations |-> 0]
TxInfos == {NoTx} \cup [found : {TRUE}, status : {0, 1, 2},
                        confirmations : 0 .. RequiredConfirmations]

\* What the chain holds for a broadcast hash: unknown to the node, pending,
\* or mined with a receipt whose status is 1 (success) or 0 (failed) and a
\* number of confirmations.
UnknownTx == [known |-> FALSE, pending |-> FALSE, receiptStatus |-> 0, confirmations |-> 0]
PendingTx == [known |-> TRUE, pending |-> TRUE, receiptStatus |-> 0, confirmations |-> 0]
ChainTxs == {UnknownTx, PendingTx} \cup
            [known : {TRUE}, pending : {FALSE}, receiptStatus : {0, 1},
             confirmations : 1 .. RequiredConfirmations]

\* ethereum Client.GetTransaction: TransactionByHash, then for a mined
\* transaction the receipt, whose status is copied into info.Status
GetTransaction(x) ==
    IF ~x.known THEN NoTx
    ELSE IF x.pending THEN [found |-> TRUE, status |-> 0, confirmations |-> 0]
    ELSE [found |-> TRUE, status |-> x.receiptStatus, confirmations |-> x.confirmations]

\* deposit CheckConfirmations: currentBlock - deposit.BlockNumber + 1, with
\* the chain at height MaxHeight and the deposit in the block of its transfer
DepositConfirmations(tx) == Confirmations(head, BlockNumberOf(tx))

\* withdrawal CheckConfirmations lists the Broadcast and Confirming rows
WithdrawalCheckStart ==
    /\ tick.phase = "credits"
    /\ tick.queue = <<>>
    /\ credit["tick"].pc = "idle"
    /\ tick' = [phase |-> "withdrawals", queue |-> ListPendingConfirmation]
    /\ UNCHANGED <<apiVars, schedVars, logVars, chainVars, kmVars, scanVars, balance, depVars, wdVars, riskVars, call, ret, proc>>

\* withdrawal CheckConfirmations, one iteration of its loop
WithdrawalCheckStep(txInfo) ==
    /\ tick.phase = "withdrawals"
    /\ tick.queue /= <<>>
    /\ LET it == Head(tick.queue)
           amount == it.row.amount
       IN  IF ~txInfo.found
           THEN UNCHANGED <<balance, withdrawals, applied>>
           ELSE IF txInfo.status = 2
           THEN /\ balance' = UnfreezeBalance(balance, amount).row
                /\ applied' = [applied EXCEPT ![it.id].unfreeze = @ + 1]
                /\ withdrawals' = SaveFailed(it, "transaction failed on chain")
           ELSE IF txInfo.confirmations >= RequiredConfirmations
           THEN /\ balance' = DecrementBalance(balance, amount).row
                /\ applied' = [applied EXCEPT ![it.id].debit = @ + 1]
                /\ withdrawals' = Save(it, WithdrawalStatusCompleted)
           ELSE /\ withdrawals' = Save(it, WithdrawalStatusConfirming)
                /\ UNCHANGED <<balance, applied>>
    /\ tick' = [tick EXCEPT !.queue = Tail(@)]
    /\ UNCHANGED <<apiVars, schedVars, logVars, chainVars, kmVars, scanVars, depVars, riskVars, call, ret, proc>>

\* deposit CheckConfirmations, one iteration, with the confirmations the
\* chain gives the deposit's transaction
DepositCheckOnChain ==
    /\ tick.phase = "deposits"
    /\ tick.queue /= <<>>
    /\ DepositCheckStep(DepositConfirmations(Head(tick.queue).row.tx))

\* withdrawal CheckConfirmations, one iteration, with what GetTransaction
\* returns for the withdrawal's hash
WithdrawalCheckOnChain ==
    /\ tick.phase = "withdrawals"
    /\ tick.queue /= <<>>
    /\ WithdrawalCheckStep(GetTransaction(chainTx[Head(tick.queue).id]))

\* the driver goes back to waiting for its ticker
TickEnd ==
    /\ tick.phase = "withdrawals"
    /\ tick.queue = <<>>
    /\ tick' = TickIdle
    /\ ran' = TRUE
    /\ UNCHANGED <<apiVars, schedVars, logVars, chainTx, head, kmVars, scanVars, balance, depVars, wdVars, riskVars, call, ret, proc>>

\* the driver stops wherever it is and is started again
TickCrash ==
    /\ tick.phase /= "idle"
    /\ MayLose("tick")
    /\ tick' = TickIdle
    /\ credit' = [credit EXCEPT !["tick"] = CreditIdle]
    /\ UNCHANGED <<apiVars, schedVars, logVars, chainVars, kmVars, scanVars, balance, deposits, creditN, wdVars, riskVars, call, ret, proc>>

\* ---------------------------------------------------------------- ledger alone
\* The four mutations of the wallet repository applied to a row directly,
\* with what each call returned.
ApplyIncrement(amount) ==
    /\ balance' = IncrementBalance(balance, amount).row
    /\ InRange(balance')
    /\ ret' = Returned("IncrementBalance", IncrementBalance(balance, amount).err)
    /\ UNCHANGED <<apiVars, schedVars, logVars, chainVars, kmVars, scanVars, depVars, wdVars, riskVars, call, proc, tick>>

ApplyDecrement(amount) ==
    /\ balance' = DecrementBalance(balance, amount).row
    /\ InRange(balance')
    /\ ret' = Returned("DecrementBalance", DecrementBalance(balance, amount).err)
    /\ UNCHANGED <<apiVars, schedVars, logVars, chainVars, kmVars, scanVars, depVars, wdVars, riskVars, call, proc, tick>>

ApplyFreeze(amount) ==
    /\ balance' = FreezeBalance(balance, amount).row
    /\ InRange(balance')
    /\ ret' = Returned("FreezeBalance", FreezeBalance(balance, amount).err)
    /\ UNCHANGED <<apiVars, schedVars, logVars, chainVars, kmVars, scanVars, depVars, wdVars, riskVars, call, proc, tick>>

ApplyUnfreeze(amount) ==
    /\ balance' = UnfreezeBalance(balance, amount).row
    /\ InRange(balance')
    /\ ret' = Returned("UnfreezeBalance", UnfreezeBalance(balance, amount).err)
    /\ UNCHANGED <<apiVars, schedVars, logVars, chainVars, kmVars, scanVars, depVars, wdVars, riskVars, call, proc, tick>>

\* FreezeBalance followed by UnfreezeBalance of the same amount, as
\* CreateWithdrawal followed by a cancellation issues them
ApplyFreezeUnfreeze(amount) ==
    /\ balance' = UnfreezeBalance(FreezeBalance(balance, amount).row, amount).row
    /\ InRange(FreezeBalance(balance, amount).row)
    /\ InRange(balance')
    /\ ret' = Returned("FreezeBalance, UnfreezeBalance",
                       UnfreezeBalance(FreezeBalance(balance, amount).row, amount).err)
    /\ UNCHANGED <<apiVars, schedVars, logVars, chainVars, kmVars, scanVars, depVars, wdVars, riskVars, call, proc, tick>>

\* ---------------------------------------------------------------- system
\* the scanner before its first tick: no scan_progress row
NotScanned ==
    /\ pdep = [p \in DepositCallers |-> DepositIdle]
    /\ scanProgress = 0
    /\ scan = ScanIdle
    /\ scanned = {}
    /\ resume = 0

\* no run of the confirmation driver yet; no broadcast transaction is mined
ChainAtRest ==
    /\ chainTx = [id \in 1 .. MaxWithdrawals |-> PendingTx]
    /\ head = MaxHeight
    /\ ran = FALSE

\* the four drivers wait for their first tick
DriversStarted ==
    /\ drivers = [d \in Drivers |-> DriverIdle]
    /\ ticks = [d \in Drivers |-> 0]
    /\ cancelled = FALSE

\* no row to read and no read yet
NoRecords ==
    /\ owners = [t \in Tables |-> <<>>]
    /\ response = NoResponse

\* no risk check has been made
NoRiskChecks ==
    /\ riskLogs = <<>>
    /\ riskResult = NoRiskCheck

\* the key manager before any key was generated
NoKeys ==
    /\ keys = <<>>
    /\ signRequests = <<>>
    /\ sign = [s \in SignCallers |-> SignIdle]
    /\ signatures = {}
    /\ gen = [g \in GenCallers |-> GenIdle]

\* the services and drivers right after they are constructed, whatever the
\* deposits table holds
ServicesIdle ==
    /\ credit = [p \in CreditCallers |-> CreditIdle]
    /\ withdrawals = <<>>
    /\ applied = <<>>
    /\ call = [c \in Callers |-> CallIdle]
    /\ ret = Returned("none", "nil")
    /\ blacklist = {}
    /\ rules = {}
    /\ limit = NoLimits
    /\ proc = ProcIdle
    /\ tick = TickIdle
    /\ NotScanned
    /\ NoKeys
    /\ NoRiskChecks
    /\ DriversStarted
    /\ NoRecords

\* the tables and drivers right after the services are constructed
EmptyTables ==
    /\ deposits = <<>>
    /\ creditN = <<>>
    /\ ServicesIdle

\* ... and the confirmation driver has not run
Empty ==
    /\ EmptyTables
    /\ ChainAtRest

\* The owner's deposit address has been generated: a zero balance row, no
\* deposit and no withdrawal yet.
Init ==
    /\ balance = CreateBalance
    /\ Empty

\* Owner's row after one deposit of amount a was confirmed and credited once
Funded(a) ==
    /\ balance = [exists |-> TRUE, available |-> a, frozen |-> 0]
    /\ deposits = <<[tx |-> 1, currency |-> NativeCurrency, amount |-> a,
                     status |-> DepositStatusCredited, credited |-> TRUE,
                     confirmations |-> RequiredConfirmations]>>
    /\ creditN = <<1>>
    /\ credit = [p \in CreditCallers |-> CreditIdle]
    /\ withdrawals = <<>>
    /\ applied = <<>>
    /\ call = [c \in Callers |-> CallIdle]
    /\ ret = Returned("none", "nil")
    /\ proc = ProcIdle
    /\ tick = TickIdle
    /\ NotScanned
    /\ NoKeys
    /\ NoRiskChecks
    /\ DriversStarted
    /\ NoRecords
    /\ ChainAtRest

\* the rule that sends amounts above its threshold to manual review
ReviewRule == CHOOSE r \in RulePool : r.action = "review"

\* Withdrawal pipeline: a funded row, the review rule active, one caller of
\* CreateWithdrawal asking for positive amounts, the reviewer, the processor
\* and the confirmation driver.  The database never refuses an insert here.
InitPipeline ==
    /\ \E a \in DepAmounts : Funded(a)
    /\ blacklist = {}
    /\ rules = {ReviewRule}
    /\ limit = NoLimits

Next ==
    \/ \E a \in 1 .. MaxAmount : CreateWithdrawalCheck("c1", "aGood", a)
    \/ CreateWithdrawalFreeze("c1", TRUE)
    \/ \E id \in 1 .. MaxWithdrawals : ApproveWithdrawal(id)
    \/ \E id \in 1 .. MaxWithdrawals : RejectWithdrawal(id)
    \/ \E id \in 1 .. MaxWithdrawals, u \in Users : CancelWithdrawal(id, u)
    \/ ProcessApprovedWithdrawals
    \/ processWithdrawalBegin
    \/ \E o \in ProcOutcomes : processWithdrawalEnd(o)
    \/ ProcStop
    \/ TickStart
    \/ ProcessCreditsStart
    \/ WithdrawalCheckStart
    \/ \E t \in TxInfos : WithdrawalCheckStep(t)
    \/ TickEnd
    \/ TickCrash

Spec == InitPipeline /\ [][Next]_vars

\* Intake: a funded row, two concurrent callers of CreateWithdrawal, and the
\* operator changing blacklist, rules and limit.
InitIntake ==
    /\ \E a \in DepAmounts : Funded(a)
    /\ blacklist = {}
    /\ rules = {}
    /\ limit = NoLimits

NextIntake ==
    \/ \E e \in BlacklistPool : AddToBlacklist(e)
    \/ \E r \in RulePool : CreateRule(r)
    \/ \E k \in LimitKeys, l \in LimitPool : SetLimit(k, l)
    \/ \E c \in Callers, to \in Addresses, a \in ReqAmounts : CreateWithdrawalCheck(c, to, a)
    \/ \E c \in Callers, ok \in BOOLEAN : CreateWithdrawalFreeze(c, ok)

SpecIntake == InitIntake /\ [][NextIntake]_vars

\* Limits: a row funded with MaxAmount, limits that stay as the operator set them, two
\* concurrent callers of CreateWithdrawal asking for positive amounts, the
\* reviewer and the owner's cancellations.  Every insert succeeds.
InitLimits ==
    /\ Funded(MaxAmount)
    /\ blacklist = {}
    /\ rules \in {{}, {ReviewRule}}
    /\ limit \in [LimitKeys -> LimitPool \cup {NoLimit}]

NextLimits ==
    \/ \E c \in Callers, a \in 1 .. MaxAmount : CreateWithdrawalCheck(c, "aGood", a)
    \/ \E c \in Callers : CreateWithdrawalFreeze(c, TRUE)
    \/ \E id \in 1 .. MaxWithdrawals : ApproveWithdrawal(id)
    \/ \E id \in 1 .. MaxWithdrawals : RejectWithdrawal(id)
    \/ \E id \in 1 .. MaxWithdrawals : CancelWithdrawal(id, Owner)

SpecLimits == InitLimits /\ [][NextLimits]_vars

\* Read endpoints: rows of two users and their reads by id.
NextRead ==
    \/ \E t \in Tables, u \in Users : InsertRecord(t, u)
    \/ \E u \in Users, id \in 1 .. MaxRecords + 1 : GetWithdrawal(u, id)
    \/ \E u \in Users, id \in 1 .. MaxRecords + 1 : GetDeposit(u, id)
    \/ \E u \in Users, id \in 1 .. MaxRecords + 1 : GetWithdrawalGRPC(u, id)

SpecRead == Init /\ [][NextRead]_vars

\* Scheduler: the tickers, the four driver loops and the cancellation.
NextSched ==
    \/ \E d \in Drivers : TickerFire(d)
    \/ \E d \in Drivers : DriverReceive(d)
    \/ \E d \in Drivers : DriverChainStart(d)
    \/ \E d \in Drivers : DriverChainEnd(d)
    \/ \E d \in Drivers : DriverBodyEnd(d)
    \/ \E d \in Drivers : DriverReturn(d)
    \/ Cancel

SpecSched == Init /\ [][NextSched]_vars

\* Risk service alone: the operator adds blacklist entries and rules, and
\* the three checks are called for either user.
NextRisk ==
    \/ \E e \in RiskBlacklistPool : AddToBlacklist(e)
    \/ \E r \in RiskRulePool : CreateRule(r)
    \/ \E u \in Users, to \in Addresses, a \in 1 .. MaxAmount :
           CheckWithdrawalRiskCall(u, to, a)
    \/ \E u \in Users, from \in Addresses : CheckDepositRiskCall(u, from)
    \/ \E u \in Users, ip \in {"ipGood", "ipBad"}, device \in {"", "devBad"} :
           CheckLoginRiskCall(u, ip, device)

SpecRisk == Init /\ [][NextRisk]_vars

\* Deposits: from construction, the scanner's ProcessDeposit, the
\* confirmation driver, direct CreditDeposit calls and crashes.
NextDeposit ==
    \/ \E t \in Transfers : ProcessDepositCheck("call", t)
    \/ ProcessDepositCreate("call")
    \/ \E d \in 1 .. MaxDeposits : ConfirmDeposit(d)
    \/ TickStart
    \/ \E n \in 0 .. RequiredConfirmations : DepositCheckStep(n)
    \/ \E h \in 0 .. MaxHeight + 1 : CheckConfirmationsStep(h)
    \/ ProcessCreditsStart
    \/ \E p \in CreditCallers, d \in 1 .. MaxDeposits : CreditRead(p, d)
    \/ \E p \in CreditCallers : CreditIncrement(p)
    \/ \E p \in CreditCallers : CreditMark(p)
    \/ CreditCrash
    \/ WithdrawalCheckStart
    \/ TickEnd
    \/ TickCrash

SpecDeposit == Init /\ [][NextDeposit]_vars

\* Credit with or without a balance row: GenerateAddress ignores the result
\* of CreateBalance, so the owner's row is there or is not.
InitCredit ==
    /\ balance \in {CreateBalance, NoBalance}
    /\ Empty

SpecCredit == InitCredit /\ [][NextDeposit]_vars

\* Processor under fair scheduling: the ticker of runWithdrawalProcessor
\* keeps firing and a started processWithdrawal runs on unless the processor
\* is stopped, which happens finitely often.
NextResume ==
    \/ \E a \in 1 .. MaxAmount : CreateWithdrawalCheck("c1", "aGood", a)
    \/ CreateWithdrawalFreeze("c1", TRUE)
    \/ \E id \in 1 .. MaxWithdrawals : ApproveWithdrawal(id)
    \/ ProcessApprovedWithdrawals
    \/ processWithdrawalBegin
    \/ \E o \in ProcOutcomes : processWithdrawalEnd(o)
    \/ ProcStop

SpecResume ==
    /\ InitPipeline
    /\ [][NextResume]_vars
    /\ WF_vars(ProcessApprovedWithdrawals)
    /\ WF_vars(processWithdrawalBegin)
    /\ WF_vars(\E o \in ProcOutcomes : processWithdrawalEnd(o))
    /\ <>[][~ProcStop]_vars

\* Confirmation driver against a chain that does not move: deposits arrive,
\* withdrawals are created and processed, and the driver runs; once a run
\* of the driver has completed, only the driver runs.
InitConfirm ==
    /\ balance = CreateBalance
    /\ EmptyTables
    /\ chainTx \in [1 .. MaxWithdrawals -> ChainTxs]
    /\ head = MaxHeight
    /\ ran = FALSE

Undisturbed == ran \/ tick.phase /= "idle"

NextConfirm ==
    \/ ~Undisturbed /\ \E t \in Transfers : ProcessDepositCheck("call", t)
    \/ ~Undisturbed /\ ProcessDepositCreate("call")
    \/ ~Undisturbed /\ \E a \in 1 .. MaxAmount : CreateWithdrawalCheck("c1", "aGood", a)
    \/ ~Undisturbed /\ CreateWithdrawalFreeze("c1", TRUE)
    \/ ~Undisturbed /\ ProcessApprovedWithdrawals
    \/ ~Undisturbed /\ processWithdrawalBegin
    \/ ~Undisturbed /\ \E o \in ProcOutcomes : processWithdrawalEnd(o)
    \/ TickStart
    \/ DepositCheckOnChain
    \/ ProcessCreditsStart
    \/ \E d \in 1 .. MaxDeposits : CreditRead("tick", d)
    \/ CreditIncrement("tick")
    \/ CreditMark("tick")
    \/ WithdrawalCheckStart
    \/ WithdrawalCheckOnChain
    \/ TickEnd
    \/ TickCrash

SpecConfirm == InitConfirm /\ [][NextConfirm]_vars

\* Confirmation driver under fair scheduling against a chain that keeps
\* producing blocks.  The deposits table holds a Pending deposit whose
\* transfer is mined and, older than it, up to ListLimit Pending deposits
\* recorded without a block number for hashes the chain does not know.
UnminedDeposit ==
    [tx |-> 0, currency |-> NativeCurrency, amount |-> 1,
     status |-> DepositStatusPending, credited |-> FALSE, confirmations |-> 0]
MinedDeposit(t) ==
    [tx |-> t.tx, currency |-> t.currency, amount |-> t.amount,
     status |-> DepositStatusPending, credited |-> FALSE, confirmations |-> 0]

InitLive ==
    /\ balance = CreateBalance
    /\ \E n \in 0 .. ListLimit, t \in Transfers :
          /\ CurrencyFits(t.currency)
          /\ deposits = [i \in 1 .. n |-> UnminedDeposit] \o <<MinedDeposit(t)>>
          /\ creditN = [i \in 1 .. n + 1 |-> 0]
    /\ ServicesIdle
    /\ chainTx = [id \in 1 .. MaxWithdrawals |-> PendingTx]
    /\ head \in 1 .. MaxHeight
    /\ ran = FALSE

NextLive ==
    \/ NewBlock
    \/ TickStart
    \/ CheckConfirmationsLoop
    \/ ProcessCreditsStart
    \/ \E d \in 1 .. ListLimit + 1 : CreditRead("tick", d)
    \/ CreditIncrement("tick")
    \/ CreditMark("tick")
    \/ WithdrawalCheckStart
    \/ TickEnd

SpecLive ==
    /\ InitLive
    /\ [][NextLive]_vars
    /\ WF_vars(NewBlock)
    /\ WF_vars(TickStart)
    /\ WF_vars(CheckConfirmationsLoop)
    /\ WF_vars(ProcessCreditsStart)
    /\ WF_vars(\E d \in 1 .. ListLimit + 1 : CreditRead("tick", d))
    /\ WF_vars(CreditIncrement("tick"))
    /\ WF_vars(CreditMark("tick"))
    /\ WF_vars(WithdrawalCheckStart)
    /\ WF_vars(TickEnd)

\* Scanner: the deposit scanner over a chain of MaxHeight blocks, its
\* restarts, and one other caller of ProcessDeposit.
NextScan ==
    \/ \E latestBlock \in 0 .. MaxHeight : ScanDeposits(latestBlock)
    \/ \E ok \in BOOLEAN : ScanGetBlock(ok)
    \/ ScanSkipTransaction
    \/ \E p \in DepositCallers, t \in Transfers : ProcessDepositCheck(p, t)
    \/ \E p \in DepositCallers : ProcessDepositCreate(p)
    \/ \E ok \in BOOLEAN : ScanGetLogs(ok)
    \/ \E ok \in BOOLEAN : SetLastScannedBlock(ok)
    \/ ScanEnd
    \/ ScanCrash

SpecScan == Init /\ [][NextScan]_vars

\* Keys: address generation from two concurrent callers and deletion of
\* keys.
NextKeys ==
    \/ \E g \in GenCallers, u \in GenUsers : GenerateAddressIndex(g, u)
    \/ \E g \in GenCallers : GenerateAddressCreate(g)
    \/ \E id \in 1 .. MaxKeys : DeleteKey(id)

SpecKeys == Init /\ [][NextKeys]_vars

\* Signing: addresses generated one at a time, Sign and SignWithRequestID
\* from two concurrent callers.
NextSign ==
    \/ GenerateAddressIndex("g1", UserID(Owner))
    \/ GenerateAddressCreate("g1")
    \/ \E s \in SignCallers, u \in SignUsers, a \in SignAddresses : Sign(s, u, a)
    \/ \E s \in SignCallers, u \in SignUsers, a \in SignAddresses :
          SignWithRequestID(s, u, a)
    \/ \E s \in SignCallers : SignRequested(s)
    \/ \E s \in SignCallers, ok \in BOOLEAN : SignEnd(s, ok)

SpecSign == Init /\ [][NextSign]_vars

\* Ledger alone: any row with non-negative columns (or no row), any amount.
InitLedger ==
    /\ balance \in [exists : {TRUE}, available : 0 .. MaxBalance, frozen : 0 .. MaxBalance]
                       \cup {NoBalance}
    /\ Empty

NextLedger ==
    \/ \E a \in ReqAmounts : ApplyIncrement(a)
    \/ \E a \in ReqAmounts : ApplyDecrement(a)
    \/ \E a \in ReqAmounts : ApplyFreeze(a)
    \/ \E a \in ReqAmounts : ApplyUnfreeze(a)
    \/ \E a \in ReqAmounts : ApplyFreezeUnfreeze(a)

SpecLedger == InitLedger /\ [][NextLedger]_vars

\* ---------------------------------------------------------------- properties
CreditedDeposits ==
    SumAmounts(deposits, {i \in 1 .. Len(deposits) :
            deposits[i].status = DepositStatusCredited}, 1)

CompletedWithdrawals ==
    SumAmounts(withdrawals, {i \in 1 .. Len(withdrawals) :
            withdrawals[i].status = WithdrawalStatusCompleted}, 1)

TerminalStatuses == {WithdrawalStatusCompleted, WithdrawalStatusFailed,
                     WithdrawalStatusRejected, WithdrawalStatusCancelled}

\* C1: conservation of funds.  In every state the balance row satisfies
\* available + frozen = (amounts of its Credited deposits) - (amounts of its
\* Completed withdrawals).
ConservationOfFunds ==
    balance.exists =>
        balance.available + balance.frozen = CreditedDeposits - CompletedWithdrawals

\* C2: non-negative balances.  In every state, whatever amounts were
\* requested, available >= 0 and frozen >= 0.
NonNegativeBalances ==
    balance.available >= 0 /\ balance.frozen >= 0

\* C3: racing withdrawals.  A CreateWithdrawal call that reaches the freeze
\* when another call has taken the funds it had seen (available < amount)
\* returns InsufficientBalance, inserts no row and leaves the balance row
\* as it is; a call that finds the funds inserts one row and raises frozen
\* by exactly its amount.  (Calls whose insert the database refused are
\* left aside.)
RacingWithdrawals ==
    [][\A c \in Callers :
        (call[c].pc = "checked" /\ call'[c].pc = "idle" /\ call[c].amount > 0
            /\ ret'.err /= "insert failed") =>
            IF balance.available < call[c].amount
            THEN /\ ret'.err = "ErrInsufficientBalance"
                 /\ withdrawals' = withdrawals
                 /\ balance' = balance
            ELSE ret'.err = "nil" =>
                 /\ Len(withdrawals') = Len(withdrawals) + 1
                 /\ balance'.frozen = balance.frozen + call[c].amount
                 /\ balance'.available = balance.available - call[c].amount]_vars

\* C4: freeze guard.  Freeze(amount) on a missing row or on a row with
\* available < amount fails with InsufficientBalance and changes neither
\* column; otherwise available -= amount and frozen += amount.
FreezeGuard ==
    [][\A a \in ReqAmounts : ApplyFreeze(a) =>
        IF ~balance.exists \/ balance.available < a
        THEN ret'.err = "ErrInsufficientBalance" /\ balance' = balance
        ELSE /\ ret'.err = "nil"
             /\ balance'.available = balance.available - a
             /\ balance'.frozen = balance.frozen + a]_vars

\* C5: unfreeze guard.  Unfreeze(amount) on a row with frozen < amount fails
\* and changes neither column; otherwise frozen -= amount and
\* available += amount.
UnfreezeGuard ==
    [][\A a \in ReqAmounts : ApplyUnfreeze(a) =>
        IF balance.exists /\ balance.frozen < a
        THEN ret'.err /= "nil" /\ balance' = balance
        ELSE balance.exists =>
             /\ ret'.err = "nil"
             /\ balance'.frozen = balance.frozen - a
             /\ balance'.available = balance.available + a]_vars

\* C6: exactly-once credit.  For every deposit, over any number of
\* ProcessCredits ticks and CreditDeposit calls, concurrent ones and ones
\* cut short by a crash included, the balance increment is issued at most
\* once, and exactly once when the deposit is marked credited.
ExactlyOnceCredit ==
    \A d \in DepositIds :
        /\ creditN[d] <= 1
        /\ deposits[d].credited => creditN[d] = 1

\* C7: risk block at intake.  A CreateWithdrawal call for a positive amount
\* whose risk check came back blocked fails: it returns an error, inserts
\* no row and leaves the balance row unchanged.
RiskBlockAtIntake ==
    [][\A c \in Callers :
        (call[c].pc = "checked" /\ call[c].risk.blocked /\ call'[c].pc = "idle"
            /\ call[c].amount > 0) =>
            /\ ret'.err /= "nil"
            /\ withdrawals' = withdrawals
            /\ balance' = balance]_vars

\* C8: finalize effect.  When the confirmation tick sees a successful
\* transaction with confirmations >= required for a listed withdrawal, it
\* lowers frozen by the withdrawal amount, leaves available unchanged and
\* marks the withdrawal Completed.
FinalizeEffect ==
    [][\A t \in TxInfos :
        (WithdrawalCheckStep(t) /\ t.found /\ t.status /= 2
            /\ t.confirmations >= RequiredConfirmations) =>
            LET it == Head(tick.queue)
            IN  /\ balance'.frozen = balance.frozen - it.row.amount
                /\ balance'.available = balance.available
                /\ withdrawals'[it.id].status = WithdrawalStatusCompleted]_vars

\* C9: a withdrawal is Completed if and only if the finalizing debit was
\* applied exactly once for it and no Unfreeze was ever applied for it.
CompletedIffDebitedOnce ==
    \A id \in WithdrawalIds :
        withdrawals[id].status = WithdrawalStatusCompleted
            <=> (applied[id].debit = 1 /\ applied[id].unfreeze = 0)

\* C10: absorbing terminal states.  Once a withdrawal is Completed, Failed,
\* Rejected or Cancelled, no step changes its status or issues a further
\* ledger statement (Unfreeze or debit) on its behalf.
TerminalAbsorbing ==
    [][\A id \in WithdrawalIds :
        withdrawals[id].status \in TerminalStatuses =>
            /\ withdrawals'[id].status = withdrawals[id].status
            /\ applied'[id] = applied[id]]_vars

\* C11: for every deposit row, in every state reached through ProcessDeposit,
\* ConfirmDeposit, CheckConfirmations, CreditDeposit and ProcessCredits,
\* credited = true if and only if status = Credited.
CreditedIffStatusCredited ==
    \A d \in DepositIds :
        deposits[d].credited <=> deposits[d].status = DepositStatusCredited

\* C12: credit effect.  Whenever a deposit is marked credited, the owner's
\* balance row exists and its available column holds at least the amounts
\* of the credited deposits, whether or not the row existed before the
\* credit (no withdrawal runs here, so available only grows).
CreditEffect ==
    (\E d \in DepositIds : deposits[d].credited) =>
        /\ balance.exists
        /\ balance.available >=
               SumAmounts(deposits, {d \in DepositIds : deposits[d].credited}, 1)

\* C13: deposit uniqueness.  In every state no two deposit rows carry the
\* same transaction hash, whatever ProcessDeposit calls ran, concurrently
\* or again after a restart of the scanner.
DepositUniqueness ==
    \A d1, d2 \in DepositIds : deposits[d1].tx = deposits[d2].tx => d1 = d2

\* a ProcessDeposit insert was refused as a duplicate while the row of the
\* first insert is in the table
DepositUniquenessWitness ==
    /\ ret = Returned("ProcessDeposit", "duplicate key")
    /\ deposits /= <<>>

\* C14: the scan progress never decreases, whatever height the adapter
\* reports and whichever fetches fail.
ScanProgressMonotonic ==
    [][scanProgress' >= scanProgress]_vars

\* a tick runs while the adapter reports a height below the stored progress
ScanProgressMonotonicWitness ==
    /\ scanProgress = MaxHeight
    /\ scan.pc = "block"
    /\ scan.latest < scanProgress

\* C15: no skipped block.  Every height up to the scan progress had its
\* block fetched and all of its transactions and logs processed.
NoSkippedBlock ==
    \A h \in 1 .. scanProgress : h \in scanned

\* C16: scanner resumability.  When the scanner stopped with block h in
\* hand before writing its progress, the first tick after the restart that
\* runs without a failure up to height h ends with the scan progress at h
\* and exactly one deposit row for every transfer of block h.
ScannerResumability ==
    [][(ScanEnd /\ resume > 0 /\ scan.clean /\ scan.latest = resume) =>
          /\ scanProgress' = resume
          /\ \A i \in {1, 2} :
                LET t == (BlockTransactions(resume) \o BlockLogs(resume))[i]
                IN  Cardinality({d \in 1 .. Len(deposits') : deposits'[d].tx = t.tx}) = 1
      ]_vars

DailyLimitRespected ==
    LET own == limit[UserID(Owner)]
        l == IF own.set THEN own ELSE limit[GlobalLimit]
    IN  l.set => GetUserDailyWithdrawal <= l.dailyLimit

\* C19: cancel.  CancelWithdrawal(id, user) succeeds only for the owner of
\* the withdrawal and from Pending, RiskReview or ManualReview; a success
\* sets the status Cancelled and moves exactly the withdrawal amount from
\* frozen to available; every other call returns an error and changes
\* neither the withdrawal rows nor the balance row.
CancelContract ==
    [][\A id \in 1 .. MaxWithdrawals, u \in Users :
          CancelWithdrawal(id, u) =>
              IF ret'.err = "nil"
              THEN /\ u = Owner
                   /\ withdrawals[id].status \in {WithdrawalStatusPending,
                          WithdrawalStatusRiskReview, WithdrawalStatusManualReview}
                   /\ withdrawals'[id].status = WithdrawalStatusCancelled
                   /\ balance'.frozen = balance.frozen - withdrawals[id].amount
                   /\ balance'.available = balance.available + withdrawals[id].amount
              ELSE UNCHANGED <<withdrawals, balance>>
      ]_vars

SignedWithIntent ==
    [][/\ \A sg \in signatures' :
             sg.address /= EmptyAddress => sg.req \in 1 .. Len(signRequests')
       /\ \A r \in 1 .. Len(signRequests) :
             signRequests[r].status /= SignStatusPending =>
                 signRequests'[r] = signRequests[r]
      ]_vars

\* C22: sign authorization.  Sign answers ErrKeyNotFound when no derived key
\* exists for the address and an ownership error when the derived key of the
\* address belongs to another user; in both cases nothing is decrypted and
\* no signature is made.  The Sign call inside SignWithRequestID likewise
\* makes no signature for a key the caller does not own.
SignAuthorization ==
    [][/\ \A s \in SignCallers, u \in SignUsers, a \in SignAddresses :
             Sign(s, u, a) =>
                LET derived == {k \in LiveKeys : /\ keys[k].keyType = "derived"
                                                 /\ keys[k].address = a}
                IN  /\ derived = {} =>
                          /\ ret' = Returned("Sign", "ErrKeyNotFound")
                          /\ sign'[s].pc = "idle"
                    /\ (derived /= {} /\ \A k \in derived : keys[k].user /= u) =>
                          /\ ret' = Returned("Sign", "key does not belong to user")
                          /\ sign'[s].pc = "idle"
       /\ \A s \in SignCallers :
             (SignRequested(s) /\ keys[sign[s].key].user /= sign[s].user) =>
                 sign'[s].pc = "idle"
       /\ \A sg \in signatures' : keys[sg.key].user = sg.user
      ]_vars

\* C23: signing serialization.  No two Sign operations for the same address
\* are between their key lookup and their return at the same time.
SigningSerialized ==
    \A s1, s2 \in SignCallers :
        (/\ s1 /= s2
         /\ sign[s1].pc = "signing"
         /\ sign[s2].pc = "signing") => sign[s1].address /= sign[s2].address

\* C24: derivation indexes are never reused.  No two derived key rows of a
\* user, deleted ones included, carry the same derivation index, hence the
\* same path and address.
DerivationIndexesUnique ==
    \A k1, k2 \in KeyIds :
        (/\ k1 /= k2
         /\ keys[k1].keyType = "derived" /\ keys[k2].keyType = "derived"
         /\ keys[k1].user = keys[k2].user) =>
            /\ keys[k1].index /= keys[k2].index
            /\ keys[k1].address /= keys[k2].address

\* C25: freeze/unfreeze round trip.  For every balance row and every
\* amount, Freeze(amount) followed by Unfreeze(amount) leaves available and
\* frozen as they were.
FreezeUnfreezeRoundTrip ==
    [][\A a \in ReqAmounts : ApplyFreezeUnfreeze(a) => balance' = balance]_vars

FailedOnChain ==
    [][\A id \in WithdrawalIds :
         (/\ tick.phase = "withdrawals"
          /\ tick.queue /= <<>>
          /\ Head(tick.queue).id = id
          /\ tick'.phase = "withdrawals"
          /\ tick'.queue = Tail(tick.queue)
          /\ chainTx[id].known
          /\ ~chainTx[id].pending
          /\ chainTx[id].receiptStatus = 0)
         => /\ withdrawals'[id].status = WithdrawalStatusFailed
            /\ applied'[id].unfreeze = applied[id].unfreeze + 1
            /\ applied'[id].debit = applied[id].debit]_vars

\* C27: a withdrawal for which Reject or Cancel has applied the Unfreeze is
\* not moved to Approved, Processing or Broadcast by any later step, and a
\* withdrawal that becomes Broadcast has had no Unfreeze applied.
NoPayoutAfterRelease ==
    [][\A id \in WithdrawalIds :
         /\ (/\ applied[id].unfreeze > 0
             /\ withdrawals'[id].status /= withdrawals[id].status)
            => withdrawals'[id].status \notin {WithdrawalStatusApproved,
                   WithdrawalStatusProcessing, WithdrawalStatusBroadcast}
         /\ withdrawals'[id].status = WithdrawalStatusBroadcast
            => applied'[id].unfreeze = 0]_vars

\* C29: when BuildTransaction, Sign or BroadcastTransaction fails, the
\* processor leaves the withdrawal Failed with an error message, and leaves
\* the balance row as it was: no Unfreeze is applied.
ProcessorFailureKeepsFrozen ==
    [][\A o \in ProcOutcomes \ {"broadcast"} :
         processWithdrawalEnd(o)
         => /\ withdrawals'[proc.cur.id].status = WithdrawalStatusFailed
            /\ withdrawals'[proc.cur.id].errorMsg /= ""
            /\ balance' = balance
            /\ applied' = applied]_vars

\* the processor has failed a withdrawal whose amount is still frozen
ProcessorFailureKeepsFrozenWitness ==
    \E id \in WithdrawalIds :
        /\ withdrawals[id].status = WithdrawalStatusFailed
        /\ withdrawals[id].errorMsg \in ProcOutcomes
        /\ applied[id] = NoneApplied
        /\ balance.frozen >= withdrawals[id].amount

\* C30: a withdrawal left in Processing by a stopped processor is picked
\* up again and, under fair scheduling of the processor, eventually reaches
\* Broadcast or Failed.
ProcessingResumed ==
    \A id \in 1 .. MaxWithdrawals :
        (id \in WithdrawalIds /\ withdrawals[id].status = WithdrawalStatusProcessing)
        ~> (/\ id \in WithdrawalIds
            /\ withdrawals[id].status \in {WithdrawalStatusBroadcast,
                                           WithdrawalStatusFailed})

\* C31: the balance is incremented for a deposit only when, at that moment,
\* the deposit has status Confirmed and credited = false; CreditDeposit and
\* ProcessCredits do not credit a Pending, Confirming or Failed deposit.
CreditOnlyConfirmed ==
    [][\A p \in CreditCallers :
         CreditIncrement(p)
         => /\ deposits[credit[p].dep].status = DepositStatusConfirmed
            /\ ~deposits[credit[p].dep].credited]_vars

\* C32: for a listed deposit with a known block number, CheckConfirmations
\* sets Confirmed iff currentBlock - block_number + 1 >= required (equal
\* counts), otherwise Confirming, and never Confirmed when currentBlock is
\* below the block number.
ConfirmationThreshold ==
    [][\A h \in 0 .. MaxHeight + 1 :
         CheckConfirmationsStep(h)
         => LET id == Head(tick.queue).id
                b == BlockNumberOf(Head(tick.queue).row.tx)
            IN  /\ deposits'[id].status =
                     IF h - b + 1 >= RequiredConfirmations
                     THEN DepositStatusConfirmed ELSE DepositStatusConfirming
                /\ h < b => deposits'[id].status /= DepositStatusConfirmed]_vars

\* a deposit was confirmed with exactly the required confirmations
ConfirmationThresholdWitness ==
    \E d \in DepositIds :
        /\ deposits[d].status = DepositStatusConfirmed
        /\ deposits[d].confirmations = RequiredConfirmations
        /\ tick.phase = "deposits"

\* the user is blacklisted: an active user entry for exactly this user id
UserBlacklisted(user) ==
    [type |-> "user", value |-> DecimalString(UserID(user))] \in blacklist

\* C33: CheckWithdrawalRisk returns the maximum risk level of the matched
\* rules (0 if none; no rule is matched for a blacklisted address or user),
\* blocked iff the address or the user is blacklisted or
\* a matched rule blocks, never blocked and passed together, and records
\* block if blocked, else review if manual review is needed, else pass.
RiskClassification ==
    [][\A u \in Users, to \in Addresses, a \in 1 .. MaxAmount :
         CheckWithdrawalRiskCall(u, to, a)
         => LET matched == IF CheckBlacklist("address", to) \/ UserBlacklisted(u)
                           THEN {}
                           ELSE {r \in rules : evaluateRule(r, a)}
                res == riskResult'.result
            IN  /\ res.riskLevel = MaxOf({r.riskLevel : r \in matched})
                /\ res.blocked <=> \/ CheckBlacklist("address", to)
                                   \/ UserBlacklisted(u)
                                   \/ \E r \in matched : r.action = "block"
                /\ res.blocked => ~res.passed
                /\ Len(riskLogs') = Len(riskLogs) + 1
                /\ riskLogs'[Len(riskLogs')].result = LogResult(res)]_vars

\* C34: every call of CheckWithdrawalRisk, CheckDepositRisk or CheckLoginRisk
\* that returns a result appends exactly one RiskLog row, on every path.
EveryRiskCheckLogged ==
    [][riskResult' /= riskResult => Len(riskLogs') = Len(riskLogs) + 1]_vars

\* C35: with an address that is not blacklisted, CheckWithdrawalRisk returns
\* blocked with reason "user is blacklisted" for user u iff there is an
\* active user-blacklist entry for exactly u.
UserBlacklistExact ==
    [][\A u \in Users, a \in 1 .. MaxAmount :
         (CheckWithdrawalRiskCall(u, "aGood", a) /\ ~CheckBlacklist("address", "aGood"))
         => ((/\ riskResult'.result.blocked
              /\ riskResult'.result.reason = "user is blacklisted")
             <=> UserBlacklisted(u))]_vars

\* C36: for each of the four drivers at most one invocation of its tick
\* body is in flight at any time, also when a tick arrives while the body
\* is still running.
NoSelfOverlap ==
    \A d \in Drivers : drivers[d].running <= 1

\* every driver is in its tick body while its next tick is already waiting
NoSelfOverlapWitness ==
    \A d \in Drivers :
        /\ drivers[d].pc = "body"
        /\ drivers[d].running = 1
        /\ ticks[d] = 1

\* C37: once the context is cancelled a driver may finish the call for the
\* chain it is working on, but starts no call for a further chain and no
\* further tick body.
NoWorkAfterCancel ==
    [][cancelled =>
          \A d \in Drivers :
              /\ ~(drivers'[d].working /\ ~drivers[d].working)
              /\ ~(drivers'[d].pc = "body" /\ drivers[d].pc = "select")]_vars

\* C38: under fair scheduling of the confirmation driver and a chain that
\* keeps producing blocks, every Pending deposit whose transfer is mined is
\* eventually Credited, however many older deposits stay unresolved.
DepositLiveness ==
    \A d \in 1 .. ListLimit + 1 :
        (/\ d \in DepositIds
         /\ deposits[d].status = DepositStatusPending
         /\ BlockNumberOf(deposits[d].tx) > 0)
            ~> (d \in DepositIds /\ deposits[d].status = DepositStatusCredited)

\* C39: CreateWithdrawal never raises available and never lowers frozen, and
\* a request whose amount is not positive changes neither the balance row
\* nor the withdrawals table.
CreateWithdrawalOnlyFreezes ==
    [][\A c \in Callers, ok \in BOOLEAN :
          CreateWithdrawalFreeze(c, ok) =>
              /\ balance'.available <= balance.available
              /\ balance'.frozen >= balance.frozen
              /\ call[c].amount <= 0 =>
                     balance' = balance /\ withdrawals' = withdrawals]_vars

\* C40: GetWithdrawal and GetDeposit answer with a record only to the user
\* who owns it, so that what a user is answered for an id is determined by
\* that user's own rows.
ReadIsolation ==
    response.status = "OK" => response.owner = response.user

====
